---- MODULE Spec2Model ----
(***************************************************************************)
(* A model of the excalidraw-mcp synchronization server: the Session Store *)
(* (state.ts), the WebSocket channel with its three pending-operation      *)
(* ledgers (websocket.ts) and the tools that mutate sessions (tools/*.ts). *)
(* Every handler of the single-threaded event loop is one action.          *)
(***************************************************************************)
EXTENDS Integers, Sequences, FiniteSets, TLC

\* ------------------------------------------------------------------ bounds
MaxClock == 3          \* clock ticks the model follows (one tick = 30 minutes)
MaxVersion == 2        \* mutations followed per session object
MaxReq == 2            \* export / conversion requests issued (crypto.randomUUID)
MaxBatch == 2          \* skeleton batches enqueued (crypto.randomUUID)
MaxElems == 3          \* elements followed per session
MaxElVersion == 2
MaxInputs == 2                      \* elements of one add_elements call
MaxGenerated == 2                   \* ids the converter generates for label texts      \* update_element calls followed per element

\* ------------------------------------------------------- program constants
DEFAULT_SESSION_ID == "default"
\* state.ts:129, 60 * 60 * 1000 ms, in clock ticks of 30 minutes
SESSION_TTL == 2
\* websocket.ts:45; the ledger bound, scaled from 200 so that pruning happens
MAX_PENDING_SKELETON_BATCHES == 1

\* --------------------------------------------------------------- universes
SessionIds == {"default", "s1"}     \* ids that pass isValidSessionId
\* The ids createSession() draws for create_diagram: mcp-<8 hex digits>
NewIds == {"mcp-1"}
BadId == "bad id"                   \* an id that fails it (a space)
AllIds == SessionIds \cup {BadId}
Conns == {"c1", "c2"}               \* WebSocket objects
ReqIds == 1 .. MaxReq
BatchIds == 1 .. MaxBatch
NoSid == ""                         \* absent sessionId / unbound connection
NoRef == 0                          \* absent requestId / batchId
NoVersion == -1                     \* absent version field of a message

VARIABLES
    sessions,          \* state.ts sessions: id -> Session (a Map: partial)
    clock,             \* Date.now(), in ticks
    wsState,           \* ws.readyState of each connection: none / open / closing
    clientSessions,    \* websocket.ts clientSessions: ws -> sessionId
    sessionClients,    \* websocket.ts sessionClients: sessionId -> Set<ws> (partial)
    pendingExports,    \* websocket.ts pendingExports: requestId -> entry (partial)
    pendingMermaidConversions,  \* requestId -> PendingMermaidConversion (partial)
    pendingSkeletonBatches,     \* sessionId -> PendingSkeletonBatch[] (partial)
    timers,            \* request ids whose setTimeout is armed
    promise,           \* per request id: how its promise stands, and how often settled
    nextReq,           \* next fresh request id
    nextBatch,         \* next fresh batch id
    staged,            \* the add_elements call suspended in waitForSessionClient
    highest,           \* history: per session id, the highest version the store held
    sent,              \* the messages the last handler sent, in order
    last,              \* the last handler that ran and its result
    browser,           \* the browser client (App): scene, refs, socket, last message
    calc,              \* the function under evaluation: its input and what it returned
    recipients         \* history: per request id, the connections it was sent to

vars == <<sessions, clock, wsState, clientSessions, sessionClients, pendingExports,
          pendingMermaidConversions, pendingSkeletonBatches, timers, promise,
          nextReq, nextBatch, staged, highest, sent, last, browser, calc, recipients>>

\* The server's variables, which the browser client and the functions leave alone.
serverVars == <<sessions, clock, wsState, clientSessions, sessionClients,
                pendingExports, pendingMermaidConversions, pendingSkeletonBatches,
                timers, promise, nextReq, nextBatch, staged, highest, sent, last,
                recipients>>

storeVars == <<sessions, highest>>
chanVars == <<wsState, clientSessions, sessionClients>>
ledgerVars == <<pendingExports, pendingMermaidConversions, pendingSkeletonBatches,
                timers, promise, nextReq, nextBatch>>

\* ---------------------------------------------------------------- helpers
RECURSIVE SetToSeq(_)
SetToSeq(S) ==
    IF S = {} THEN <<>>
    ELSE LET x == CHOOSE y \in S : TRUE IN <<x>> \o SetToSeq(S \ {x})

RECURSIVE SeqConcat(_)
SeqConcat(ss) == IF ss = <<>> THEN <<>> ELSE Head(ss) \o SeqConcat(Tail(ss))

Range(f) == {f[x] : x \in DOMAIN f}

\* Map.delete(k)
MapDelete(m, k) == [x \in (DOMAIN m) \ {k} |-> m[x]]
\* Map.set(k, v)
MapSet(m, k, v) == [x \in (DOMAIN m) \cup {k} |-> IF x = k THEN v ELSE m[x]]

\* ------------------------------------------------------------ Session Store
createDefaultAppState ==
    [ viewBackgroundColor |-> "#ffffff",
      currentItemStrokeColor |-> "#1e1e1e",
      currentItemBackgroundColor |-> "transparent",
      currentItemFillStyle |-> "solid",
      currentItemStrokeWidth |-> "2",
      currentItemRoughness |-> "1",
      zoom |-> "1" ]

isValidSessionId(id) == id \in SessionIds \cup NewIds

\* The session object createSession builds.
NewSession(id) ==
    [ id |-> id, elements |-> <<>>, appState |-> createDefaultAppState,
      version |-> 0, lastUpdated |-> clock ]

hasSession(store, id) == id \in DOMAIN store

\* getSession(id) with autoCreate: the store after the call. It throws on an id
\* that is not stored and fails validation (GetSessionThrows), storing nothing.
GetSessionThrows(store, id) == ~hasSession(store, id) /\ ~isValidSessionId(id)
getSession(store, id) ==
    IF hasSession(store, id) \/ ~isValidSessionId(id) THEN store
    ELSE MapSet(store, id, NewSession(id))

\* updateSession(session): refresh lastUpdated and store under session.id.
updateSession(store, s) == MapSet(store, s.id, [s EXCEPT !.lastUpdated = clock])

\* The history of versions: the highest version each id has held in the store.
Observed(store) ==
    [id \in SessionIds |->
        IF id \in DOMAIN store /\ store[id].version > highest[id]
        THEN store[id].version ELSE highest[id]]

listSessions == {[id |-> sessions[i].id, lastUpdated |-> sessions[i].lastUpdated]
                    : i \in DOMAIN sessions}

Expired(store, id) == clock - store[id].lastUpdated > SESSION_TTL

\* A sweep that does not exempt the default session.
cleanupWithoutExemption(store) ==
    [id \in {i \in DOMAIN store : ~Expired(store, i)} |-> store[id]]

\* cleanupExpiredSessions: the store after the sweep.
cleanupExpiredSessions(store) ==
    [id \in {i \in DOMAIN store : i = DEFAULT_SESSION_ID \/ ~Expired(store, i)}
        |-> store[id]]

\* ---------------------------------------------------------------- elements
Element(id, type, points) ==
    [id |-> id, type |-> type, points |-> points, isDeleted |-> FALSE, version |-> 0]

LINEAR_ELEMENT_TYPES == {"arrow", "line", "freedraw"}

\* normalizeLinearElement: a linear element with fewer than two parsed points
\* gets the two-point fallback. points is the number of well-formed points.
normalizeLinearElement(el) ==
    IF el.type \notin LINEAR_ELEMENT_TYPES THEN el
    ELSE IF el.points >= 2 THEN el ELSE [el EXCEPT !.points = 2]

normalizeElementsForStorage(els) ==
    [i \in 1 .. Len(els) |-> normalizeLinearElement(els[i])]

\* ---------------------------------------------------------------- messages
Msg(to, type, sid, ver, ref, els, app) ==
    [to |-> to, type |-> type, sessionId |-> sid, version |-> ver, ref |-> ref,
     elements |-> els, appState |-> app]

NoApp == [absent |-> "absent"]

IsOpen(c) == wsState[c] = "open"

\* What the last handler was: its name, connection, session id, result, and the
\* request or batch id (or count) it was about.
Result(op, c, sid, res, ref) ==
    [op |-> op, conn |-> c, sid |-> sid, res |-> res, ref |-> ref, arg |-> ""]
\* The result of a tool that was called for element id arg of session sid.
ResultOn(op, sid, res, arg) ==
    [op |-> op, conn |-> "", sid |-> sid, res |-> res, ref |-> NoRef, arg |-> arg]

\* sendSkeletonBatch
sendSkeletonBatch(c, batch) ==
    IF ~IsOpen(c) THEN <<>>
    ELSE <<Msg(c, "add_elements", NoSid, NoVersion, batch.batchId, batch.skeletons,
               batch.appState)>>

\* sendMermaidConversionRequest: the message sent, if any (sent == it is not empty)
sendMermaidConversionRequest(c, req) ==
    IF ~IsOpen(c) THEN <<>>
    ELSE <<Msg(c, "mermaid_convert", req.sessionId, NoVersion, req.requestId, <<>>, NoApp)>>

ClientsOf(sc, sid) == IF sid \in DOMAIN sc THEN sc[sid] ELSE {}

\* A broadcast that does not leave out the excluded connection.
broadcastWithEcho(sid, m, exclude) ==
    LET to == SetToSeq({c \in ClientsOf(sessionClients, sid) : IsOpen(c)})
    IN [i \in 1 .. Len(to) |-> [m EXCEPT !.to = to[i]]]

\* broadcastToSession(sessionId, msg, exclude): msg is given without its receiver
broadcastToSession(sid, m, exclude) ==
    LET to == SetToSeq({c \in ClientsOf(sessionClients, sid) : c # exclude /\ IsOpen(c)})
    IN [i \in 1 .. Len(to) |-> [m EXCEPT !.to = to[i]]]

\* broadcast(msg, exclude): to every open connection in clientSessions
broadcast(m, exclude) ==
    LET to == SetToSeq({c \in Conns : clientSessions[c] # NoSid /\ c # exclude /\ IsOpen(c)})
    IN [i \in 1 .. Len(to) |-> [m EXCEPT !.to = to[i]]]

\* The 'update' message the inbound handlers broadcast for session s.
UpdateOf(s) == Msg("", "update", s.id, s.version, NoRef, s.elements, s.appState)
\* The 'update' message the tools broadcast: it carries neither sessionId nor version.
ToolUpdateOf(s) == Msg("", "update", NoSid, NoVersion, NoRef, s.elements, s.appState)
\* An init message that describes a fresh session instead of the stored one.
InitOfFresh(c, s) == Msg(c, "init", s.id, 0, NoRef, <<>>, createDefaultAppState)
InitOf(c, s) == Msg(c, "init", s.id, s.version, NoRef, s.elements, s.appState)


\* ------------------------------------------------------ connection maps
EmptyMap == [x \in {} |-> x]

\* The history of recipients after a handler sent msgs: every connection a
\* mermaid_convert message went to is added to the recipients of its request.
NoHistory == EmptyMap
Recorded(h, msgs) ==
    [r \in DOMAIN h |->
        h[r] \cup {msgs[k].to : k \in {j \in DOMAIN msgs :
                                          msgs[j].type = "mermaid_convert" /\ msgs[j].ref = r}}]

\* joinSession(ws, sessionId): the two maps after the call.
joinSession(cs, sc, c, sid) ==
    LET old == cs[c]
        sc1 == IF old # NoSid /\ old # sid /\ old \in DOMAIN sc
               THEN IF sc[old] \ {c} = {} THEN MapDelete(sc, old)
                    ELSE MapSet(sc, old, sc[old] \ {c})
               ELSE sc
    IN [ cs |-> [cs EXCEPT ![c] = sid],
         sc |-> MapSet(sc1, sid, ClientsOf(sc1, sid) \cup {c}) ]

\* removeClient(ws): the two maps and the conversion ledger after the call.
removeClient(cs, sc, pmc, c) ==
    LET sid == cs[c]
        has == sid # NoSid /\ sid \in DOMAIN sc
        emptied == has /\ sc[sid] \ {c} = {}
    IN [ cs |-> [cs EXCEPT ![c] = NoSid],
         sc |-> IF ~has THEN sc
                ELSE IF emptied THEN MapDelete(sc, sid)
                ELSE MapSet(sc, sid, sc[sid] \ {c}),
         pmc |-> IF emptied
                 THEN [r \in DOMAIN pmc |->
                          IF pmc[r].sessionId = sid
                          THEN [pmc[r] EXCEPT !.dispatched = FALSE] ELSE pmc[r]]
                 ELSE pmc ]

\* clientSessions.get(ws) || 'default'
CurrentSessionId(c) ==
    IF clientSessions[c] = NoSid THEN DEFAULT_SESSION_ID ELSE clientSessions[c]

\* ----------------------------------------------------- skeleton-batch ledger
SelectSynced(batches, flag) == SelectSeq(batches, LAMBDA b : b.synced = flag)

\* Array.prototype.slice(-n): the last n entries, and the whole array for n = 0
SliceLast(s, n) ==
    IF n = 0 \/ n >= Len(s) THEN s ELSE SubSeq(s, Len(s) - n + 1, Len(s))

cleanupSkeletonBatches(psb, sid) ==
    IF sid \notin DOMAIN psb \/ Len(psb[sid]) <= MAX_PENDING_SKELETON_BATCHES THEN psb
    ELSE LET synced == SelectSynced(psb[sid], TRUE)
             unsynced == SelectSynced(psb[sid], FALSE)
             d == MAX_PENDING_SKELETON_BATCHES - Len(unsynced)
             keepSynced == IF d > 0 THEN d ELSE 0
         IN MapSet(psb, sid, SliceLast(synced, keepSynced) \o unsynced)

markSkeletonBatchSynced(psb, sid, batchId) ==
    IF sid \notin DOMAIN psb THEN psb
    ELSE LET hits == {i \in 1 .. Len(psb[sid]) : psb[sid][i].batchId = batchId}
         IN IF hits = {} THEN psb
            ELSE LET i == CHOOSE j \in hits : \A k \in hits : j <= k
                 IN cleanupSkeletonBatches(
                        [psb EXCEPT ![sid][i].synced = TRUE], sid)

\* A replay that sends every batch of the list, synced or not.
replayAllBatches(psb, sid, c) ==
    IF sid \notin DOMAIN psb THEN <<>>
    ELSE SeqConcat([i \in 1 .. Len(psb[sid]) |-> sendSkeletonBatch(c, psb[sid][i])])

\* A replay that sends the newest unsynced batch only.
replayNewestOnly(psb, sid, c) ==
    IF sid \notin DOMAIN psb THEN <<>>
    ELSE LET unsynced == SelectSynced(psb[sid], FALSE)
         IN IF unsynced = <<>> THEN <<>>
            ELSE sendSkeletonBatch(c, unsynced[Len(unsynced)])

\* replayPendingSkeletonBatches(sessionId, ws): the messages it sends
replayPendingSkeletonBatches(psb, sid, c) ==
    IF sid \notin DOMAIN psb THEN <<>>
    ELSE LET unsynced == SelectSynced(psb[sid], FALSE)
         IN SeqConcat([i \in 1 .. Len(unsynced) |-> sendSkeletonBatch(c, unsynced[i])])

\* ---------------------------------------------------------- conversion ledger
\* The pending requests replayPendingMermaidConversions sends to ws.
ReplayableConversions(pmc, sid, c) ==
    {r \in DOMAIN pmc : pmc[r].sessionId = sid /\ ~pmc[r].dispatched /\ IsOpen(c)}

\* A replay that sends the requests and does not mark them dispatched.
replayWithoutMarking(pmc, sid, c) ==
    LET rs == ReplayableConversions(pmc, sid, c)
        ordered == SelectSeq([i \in 1 .. MaxReq |-> i], LAMBDA r : r \in rs)
    IN [ msgs |-> SeqConcat([i \in 1 .. Len(ordered) |->
                               sendMermaidConversionRequest(c, pmc[ordered[i]])]),
         pmc |-> pmc ]

\* replayPendingMermaidConversions(sessionId, ws): messages sent (the Map is walked
\* in insertion order, which is the order of the request ids) and the ledger after.
replayPendingMermaidConversions(pmc, sid, c) ==
    LET rs == ReplayableConversions(pmc, sid, c)
        ordered == SelectSeq([i \in 1 .. MaxReq |-> i], LAMBDA r : r \in rs)
    IN [ msgs |-> SeqConcat([i \in 1 .. Len(ordered) |->
                               sendMermaidConversionRequest(c, pmc[ordered[i]])]),
         pmc |-> [r \in DOMAIN pmc |->
                    IF r \in rs THEN [pmc[r] EXCEPT !.dispatched = TRUE] ELSE pmc[r]] ]

\* ------------------------------------------------------------------ promises
NoPromise == [state |-> "none", settles |-> 0, why |-> "", kind |-> "", sid |-> NoSid]
\* new Promise(...) of a request of the given kind issued for session sid
NewPromise(pr, r, kind, sid) ==
    [pr EXCEPT ![r] = [state |-> "pending", settles |-> 0, why |-> "",
                       kind |-> kind, sid |-> sid]]
\* resolve(...) / reject(...) of the promise of request r
Settle(pr, r, state, why) ==
    [pr EXCEPT ![r] = [@ EXCEPT !.state = IF @ = "pending" THEN state ELSE @,
                                !.settles = @ + 1,
                                !.why = IF pr[r].state = "pending" THEN why ELSE @]]

\* The App as it mounts: an empty scene, no batch processed, the socket open.
NoMessage == [type |-> "none", batchId |-> NoRef, skeletons |-> <<>>]
NewApp == [scene |-> <<>>, processed |-> {}, wsOpen |-> TRUE, wsSent |-> <<>>,
           generated |-> 0, msg |-> NoMessage, branch |-> "none"]
\* No function evaluated yet.
NoCalc == [op |-> "none", input |-> <<>>, output |-> <<>>]

NoStaged == [active |-> FALSE, sid |-> NoSid, inp |-> <<>>, detached |-> FALSE,
             obj |-> [id |-> NoSid]]

Started ==
    /\ sessions = EmptyMap
    /\ clock = 0
    /\ wsState = [c \in Conns |-> "none"]
    /\ clientSessions = [c \in Conns |-> NoSid]
    /\ sessionClients = EmptyMap
    /\ pendingExports = EmptyMap
    /\ pendingMermaidConversions = EmptyMap
    /\ pendingSkeletonBatches = EmptyMap
    /\ timers = {}
    /\ promise = [r \in ReqIds |-> NoPromise]
    /\ nextReq = 1
    /\ nextBatch = 1
    /\ staged = NoStaged
    /\ highest = [id \in SessionIds |-> 0]
    /\ sent = <<>>
    /\ last = Result("init", "", NoSid, "ok", NoRef)
    /\ browser = NewApp
    /\ calc = NoCalc

\* The server as it starts. The history of recipients is kept only where a
\* property needs it: Init keeps none, InitRecording starts it empty.
Init == Started /\ recipients = NoHistory
InitRecording == Started /\ recipients = [r \in ReqIds |-> {}]

\* ------------------------------------------------------- connection events
\* The session as the 'connection' / join_session handler leaves it: its elements
\* are replaced by their normalized form (no version bump, no updateSession).
NormalizedForInit(store, sid) ==
    [store EXCEPT ![sid].elements = normalizeElementsForStorage(@)]

\* wss.on('connection'): sessionId from the URL, 'default' when absent
Connect(c, sid) ==
    /\ wsState[c] = "none"
    /\ LET j == joinSession(clientSessions, sessionClients, c, sid)
           store == NormalizedForInit(getSession(sessions, sid), sid)
       IN /\ clientSessions' = j.cs
          /\ sessionClients' = j.sc
          /\ sessions' = store
          /\ highest' = Observed(sessions')
          /\ sent' = <<InitOf(c, store[sid])>>
    /\ wsState' = [wsState EXCEPT ![c] = "open"]
    /\ last' = Result("connection", c, sid, "ok", NoRef)
    /\ UNCHANGED <<browser, calc, recipients, clock, ledgerVars, staged>>

\* The peer starts closing: readyState leaves OPEN before 'close' is emitted.
BeginClose(c) ==
    /\ wsState[c] = "open"
    /\ wsState' = [wsState EXCEPT ![c] = "closing"]
    /\ sent' = <<>>
    /\ last' = Result("closing", c, clientSessions[c], "ok", NoRef)
    /\ UNCHANGED <<browser, calc, recipients, sessions, highest, clock, clientSessions, sessionClients, ledgerVars, staged>>

\* ws.on('close'): removeClient
Close(c) ==
    /\ wsState[c] \in {"open", "closing"}
    /\ LET r == removeClient(clientSessions, sessionClients, pendingMermaidConversions, c)
       IN /\ clientSessions' = r.cs
          /\ sessionClients' = r.sc
          /\ pendingMermaidConversions' = r.pmc
    /\ wsState' = [wsState EXCEPT ![c] = "none"]
    /\ sent' = <<>>
    /\ last' = Result("close", c, clientSessions[c], "ok", NoRef)
    /\ UNCHANGED <<browser, calc, recipients, sessions, highest, clock, pendingExports, pendingSkeletonBatches, timers,
                   promise, nextReq, nextBatch, staged>>

\* message {type: 'ping'}
Ping(c) ==
    /\ IsOpen(c)
    /\ sent' = <<Msg(c, "pong", NoSid, NoVersion, NoRef, <<>>, NoApp)>>
    /\ last' = Result("ping", c, clientSessions[c], "ok", NoRef)
    /\ UNCHANGED <<browser, calc, recipients, sessions, highest, clock, chanVars, ledgerVars, staged>>

\* A join_session handler that replays the ledgers to the joining connection.
JoinSessionMsgReplaying(c, sid) ==
    /\ IsOpen(c)
    /\ ~GetSessionThrows(sessions, sid)
    /\ LET j == joinSession(clientSessions, sessionClients, c, sid)
           store == NormalizedForInit(getSession(sessions, sid), sid)
           rep == replayPendingMermaidConversions(pendingMermaidConversions, sid, c)
       IN /\ clientSessions' = j.cs
          /\ sessionClients' = j.sc
          /\ sessions' = store
          /\ highest' = Observed(sessions')
          /\ pendingMermaidConversions' = rep.pmc
          /\ sent' = <<InitOf(c, store[sid])>>
                     \o replayPendingSkeletonBatches(pendingSkeletonBatches, sid, c)
                     \o rep.msgs
          /\ last' = Result("join_session", c, sid, "ok", NoRef)
          /\ recipients' = Recorded(recipients, sent')
    /\ UNCHANGED <<browser, calc, clock, wsState, pendingExports, pendingSkeletonBatches, timers,
                   promise, nextReq, nextBatch, staged>>

\* message {type: 'join_session', sessionId}: a sessionId that is no string
\* selects 'default'. getSession throws on an invalid id after joinSession ran.
JoinSessionMsg(c, sid) ==
    /\ IsOpen(c)
    /\ LET j == joinSession(clientSessions, sessionClients, c, sid)
       IN /\ clientSessions' = j.cs
          /\ sessionClients' = j.sc
    /\ IF GetSessionThrows(sessions, sid)
       THEN /\ sessions' = sessions
            /\ highest' = Observed(sessions')
            /\ sent' = <<>>
            /\ last' = Result("join_session", c, sid, "threw", NoRef)
       ELSE LET store == NormalizedForInit(getSession(sessions, sid), sid)
            IN /\ sessions' = store
               /\ highest' = Observed(sessions')
               /\ sent' = <<InitOf(c, store[sid])>>
               /\ last' = Result("join_session", c, sid, "ok", NoRef)
    /\ UNCHANGED <<browser, calc, recipients, clock, wsState, ledgerVars, staged>>

\* message {type: 'join_session', sessionId: ''}: the empty string is a string,
\* so joinSession takes it as it is, while getSession('') reads 'default'.
JoinSessionMsgEmpty(c) ==
    /\ IsOpen(c)
    /\ LET j == joinSession(clientSessions, sessionClients, c, NoSid)
           store == NormalizedForInit(getSession(sessions, DEFAULT_SESSION_ID),
                                      DEFAULT_SESSION_ID)
       IN /\ clientSessions' = j.cs
          /\ sessionClients' = j.sc
          /\ sessions' = store
          /\ highest' = Observed(sessions')
          /\ sent' = <<InitOf(c, store[DEFAULT_SESSION_ID])>>
          /\ last' = Result("join_session", c, NoSid, "ok", NoRef)
    /\ UNCHANGED <<browser, calc, recipients, clock, wsState, ledgerVars, staged>>

\* message {type: 'ready', lastAckedBatchId?}
Ready(c, ack) ==
    /\ IsOpen(c)
    /\ LET sid == CurrentSessionId(c)
           psb == IF ack # NoRef
                  THEN markSkeletonBatchSynced(pendingSkeletonBatches, sid, ack)
                  ELSE pendingSkeletonBatches
           rep == replayPendingMermaidConversions(pendingMermaidConversions, sid, c)
       IN /\ pendingSkeletonBatches' = psb
          /\ pendingMermaidConversions' = rep.pmc
          /\ sent' = replayPendingSkeletonBatches(psb, sid, c) \o rep.msgs
          /\ last' = Result("ready", c, sid, "ok", ack)
          /\ recipients' = Recorded(recipients, sent')
    /\ UNCHANGED <<browser, calc, sessions, highest, clock, chanVars, pendingExports, timers, promise,
                   nextReq, nextBatch, staged>>


\* ------------------------------------------------------- inbound payloads
NotAString == "<not a string>"      \* a value whose typeof is not 'string'

\* A client's elements field: whether it is an array, its length, and its entries.
Payload(isArray, length, items) ==
    [isArray |-> isArray, length |-> length, items |-> items]

ElementsPayloads ==
    { Payload(TRUE, 1, <<Element("e1", "rectangle", 0)>>),
      Payload(TRUE, 2, <<Element("e1", "rectangle", 0), Element("a1", "arrow", 1)>>),
      Payload(FALSE, 0, <<>>),
      Payload(TRUE, 10001, <<Element("e1", "rectangle", 0)>>),
      Payload(TRUE, 1, <<Element(NotAString, "rectangle", 0)>>) }

isValidElementsPayload(p) ==
    /\ p.isArray
    /\ p.length <= 10000
    /\ \A i \in 1 .. Len(p.items) :
          p.items[i].id # NotAString /\ p.items[i].type # NotAString

\* A client's appState field: absent (falsy), a plain object, or another truthy value.
AppPayloads ==
    { [kind |-> "absent", val |-> NoApp],
      [kind |-> "object",
       val |-> [viewBackgroundColor |-> "#000000", collaborators |-> "cursors"]],
      [kind |-> "other", val |-> NoApp] }

\* The spread without the destructuring: every key is kept.
KeepAllKeys(obj) == obj

\* const { collaborators, ...safeAppState } = msg.appState
StripCollaborators(obj) == [k \in (DOMAIN obj) \ {"collaborators"} |-> obj[k]]
\* { ...session.appState, ...safeAppState }
MergeAppState(appState, obj) ==
    [k \in (DOMAIN appState) \cup (DOMAIN obj) |->
        IF k \in DOMAIN obj THEN obj[k] ELSE appState[k]]

Bump(s) == [s EXCEPT !.version = @ + 1]

\* No handler's effect once its message was dropped or its try block threw.
Dropped(op, c, res, ref) ==
    /\ sent' = <<>>
    /\ last' = Result(op, c, clientSessions[c], res, ref)
    /\ UNCHANGED <<browser, calc, recipients, sessions, highest, clock, chanVars, ledgerVars, staged>>

\* A message without an appState field.
AppAbsent == [kind |-> "absent", val |-> NoApp]

\* What is wrong with the elements and appState fields of a message, if anything.
Shape(p, app) ==
    IF ~p.isArray THEN "elements is no array"
    ELSE IF p.length > 10000 THEN "elements too long"
    ELSE IF \E i \in DOMAIN p.items :
               p.items[i].id = NotAString \/ p.items[i].type = NotAString
    THEN "entry without id and type"
    ELSE IF app.kind = "other" THEN "appState is no object"
    ELSE "well-formed"

\* Dropped, for a handler whose result records the shape of its message.
DroppedOn(op, c, res, ref, shape) ==
    /\ sent' = <<>>
    /\ last' = [Result(op, c, clientSessions[c], res, ref) EXCEPT !.arg = shape]
    /\ UNCHANGED <<browser, calc, recipients, sessions, highest, clock, chanVars, ledgerVars, staged>>

\* A message that is no plain object, or whose type is unknown.
Malformed(c) ==
    /\ IsOpen(c)
    /\ Dropped("malformed", c, "dropped", NoRef)

\* message {type: 'update', elements, appState?}
Update(c, p, app) ==
    /\ IsOpen(c)
    /\ LET sid == CurrentSessionId(c) IN
       IF ~isValidElementsPayload(p) \/ app.kind = "other"
       THEN DroppedOn("update", c, "dropped", NoRef, Shape(p, app))
       ELSE IF GetSessionThrows(sessions, sid)
       THEN DroppedOn("update", c, "threw", NoRef, Shape(p, app))
       ELSE LET s0 == getSession(sessions, sid)[sid]
                s1 == [s0 EXCEPT !.elements = normalizeElementsForStorage(p.items),
                                 !.appState = IF app.kind = "object"
                                              THEN MergeAppState(@, StripCollaborators(app.val))
                                              ELSE @]
                s2 == Bump(s1)
            IN /\ s0.version < MaxVersion
               /\ sessions' = updateSession(sessions, s2)
               /\ highest' = Observed(sessions')
               /\ sent' = broadcastToSession(sid, UpdateOf(s2), c)
               /\ last' = [Result("update", c, sid, "ok", NoRef) EXCEPT !.arg = Shape(p, app)]
               /\ UNCHANGED <<browser, calc, recipients, clock, chanVars, ledgerVars, staged>>

\* message {type: 'elements_converted', elements, batchId?}
ElementsConverted(c, p, batch) ==
    /\ IsOpen(c)
    /\ LET sid == CurrentSessionId(c) IN
       IF ~isValidElementsPayload(p)
       THEN DroppedOn("elements_converted", c, "dropped", batch, Shape(p, AppAbsent))
       ELSE IF GetSessionThrows(sessions, sid)
       THEN DroppedOn("elements_converted", c, "threw", batch, Shape(p, AppAbsent))
       ELSE LET s0 == getSession(sessions, sid)[sid]
                s2 == Bump([s0 EXCEPT !.elements = normalizeElementsForStorage(p.items)])
            IN /\ s0.version < MaxVersion
               /\ pendingSkeletonBatches' =
                      IF batch # NoRef
                      THEN markSkeletonBatchSynced(pendingSkeletonBatches, sid, batch)
                      ELSE pendingSkeletonBatches
               /\ sessions' = updateSession(sessions, s2)
               /\ highest' = Observed(sessions')
               /\ sent' = broadcastToSession(sid, UpdateOf(s2), c)
               /\ last' = [Result("elements_converted", c, sid, "ok", batch) EXCEPT !.arg = Shape(p, AppAbsent)]
               /\ UNCHANGED <<browser, calc, recipients, clock, chanVars, pendingExports, pendingMermaidConversions,
                              timers, promise, nextReq, nextBatch, staged>>

\* A mermaid_converted handler that broadcasts before it increments the version
\* and persists.
MermaidConvertedBroadcastFirst(c, r, p, app) ==
    /\ IsOpen(c)
    /\ LET sid == CurrentSessionId(c) IN
       IF r = NoRef \/ ~isValidElementsPayload(p)
       THEN DroppedOn("mermaid_converted", c, "dropped", r, Shape(p, app))
       ELSE IF r \notin DOMAIN pendingMermaidConversions
       THEN DroppedOn("mermaid_converted", c, "stale", r, Shape(p, app))
       ELSE IF pendingMermaidConversions[r].sessionId # sid
       THEN DroppedOn("mermaid_converted", c, "foreign", r, Shape(p, app))
       ELSE LET s0 == getSession(sessions, sid)[sid]
                s1 == [s0 EXCEPT !.elements = normalizeElementsForStorage(p.items),
                                 !.appState = IF app.kind = "object"
                                              THEN MergeAppState(@, StripCollaborators(app.val))
                                              ELSE @]
                s2 == Bump(s1)
            IN /\ s0.version < MaxVersion
               /\ sessions' = updateSession(sessions, s2)
               /\ highest' = Observed(sessions')
               /\ timers' = timers \ {r}
               /\ pendingMermaidConversions' = MapDelete(pendingMermaidConversions, r)
               /\ promise' = Settle(promise, r, "resolved", "converted")
               /\ sent' = broadcastToSession(sid, UpdateOf(s1), c)
               /\ last' = [Result("mermaid_converted", c, sid, "ok", r) EXCEPT !.arg = Shape(p, app)]
               /\ UNCHANGED <<browser, calc, recipients, clock, chanVars, pendingExports, pendingSkeletonBatches,
                              nextReq, nextBatch, staged>>

\* message {type: 'mermaid_converted', requestId, elements, appState?}
MermaidConverted(c, r, p, app) ==
    /\ IsOpen(c)
    /\ LET sid == CurrentSessionId(c) IN
       IF r = NoRef \/ ~isValidElementsPayload(p)
       THEN DroppedOn("mermaid_converted", c, "dropped", r, Shape(p, app))
       ELSE IF r \notin DOMAIN pendingMermaidConversions
       THEN DroppedOn("mermaid_converted", c, "stale", r, Shape(p, app))
       ELSE IF pendingMermaidConversions[r].sessionId # sid
       THEN DroppedOn("mermaid_converted", c, "foreign", r, Shape(p, app))
       ELSE LET s0 == getSession(sessions, sid)[sid]
                s1 == [s0 EXCEPT !.elements = normalizeElementsForStorage(p.items),
                                 !.appState = IF app.kind = "object"
                                              THEN MergeAppState(@, StripCollaborators(app.val))
                                              ELSE @]
                s2 == Bump(s1)
            IN /\ s0.version < MaxVersion
               /\ sessions' = updateSession(sessions, s2)
               /\ highest' = Observed(sessions')
               /\ timers' = timers \ {r}
               /\ pendingMermaidConversions' = MapDelete(pendingMermaidConversions, r)
               /\ promise' = Settle(promise, r, "resolved", "converted")
               /\ sent' = broadcastToSession(sid, UpdateOf(s2), c)
               /\ last' = [Result("mermaid_converted", c, sid, "ok", r) EXCEPT !.arg = Shape(p, app)]
               /\ UNCHANGED <<browser, calc, recipients, clock, chanVars, pendingExports, pendingSkeletonBatches,
                              nextReq, nextBatch, staged>>

\* A mermaid_convert_error handler that rejects and keeps the ledger entry.
MermaidConvertErrorKeeping(c, r) ==
    /\ IsOpen(c)
    /\ IF r = NoRef
       THEN Dropped("mermaid_convert_error", c, "dropped", r)
       ELSE IF r \notin DOMAIN pendingMermaidConversions
       THEN Dropped("mermaid_convert_error", c, "stale", r)
       ELSE /\ timers' = timers \ {r}
            /\ promise' = Settle(promise, r, "rejected", "client error")
            /\ sent' = <<>>
            /\ last' = Result("mermaid_convert_error", c, clientSessions[c], "ok", r)
            /\ UNCHANGED <<browser, calc, recipients, sessions, highest, clock, chanVars, pendingExports,
                           pendingMermaidConversions, pendingSkeletonBatches,
                           nextReq, nextBatch, staged>>

\* message {type: 'mermaid_convert_error', requestId, error?}
MermaidConvertError(c, r) ==
    /\ IsOpen(c)
    /\ IF r = NoRef
       THEN Dropped("mermaid_convert_error", c, "dropped", r)
       ELSE IF r \notin DOMAIN pendingMermaidConversions
       THEN Dropped("mermaid_convert_error", c, "stale", r)
       ELSE /\ timers' = timers \ {r}
            /\ pendingMermaidConversions' = MapDelete(pendingMermaidConversions, r)
            /\ promise' = Settle(promise, r, "rejected", "client error")
            /\ sent' = <<>>
            /\ last' = Result("mermaid_convert_error", c, clientSessions[c], "ok", r)
            /\ UNCHANGED <<browser, calc, recipients, sessions, highest, clock, chanVars, pendingExports,
                           pendingSkeletonBatches, nextReq, nextBatch, staged>>

\* message {type: 'export_result', requestId, data?, error?}
ExportResultKinds == {"data", "error", "invalid"}
\* An export_result handler that leaves the timer of the request armed.
ExportResultKeepingTimer(c, r, kind) ==
    /\ IsOpen(c)
    /\ IF r = NoRef
       THEN Dropped("export_result", c, "dropped", r)
       ELSE IF r \notin DOMAIN pendingExports
       THEN Dropped("export_result", c, "stale", r)
       ELSE /\ pendingExports' = MapDelete(pendingExports, r)
            /\ promise' = CASE kind = "error" -> Settle(promise, r, "rejected", "client error")
                            [] kind = "invalid" ->
                                 Settle(promise, r, "rejected", "Invalid export payload")
                            [] OTHER -> Settle(promise, r, "resolved", "data")
            /\ sent' = <<>>
            /\ last' = Result("export_result", c, clientSessions[c], "ok", r)
            /\ UNCHANGED <<browser, calc, recipients, sessions, highest, clock, chanVars, pendingMermaidConversions,
                           pendingSkeletonBatches, timers, nextReq, nextBatch, staged>>

ExportResult(c, r, kind) ==
    /\ IsOpen(c)
    /\ IF r = NoRef
       THEN Dropped("export_result", c, "dropped", r)
       ELSE IF r \notin DOMAIN pendingExports
       THEN Dropped("export_result", c, "stale", r)
       ELSE /\ timers' = timers \ {r}
            /\ pendingExports' = MapDelete(pendingExports, r)
            /\ promise' = CASE kind = "error" -> Settle(promise, r, "rejected", "client error")
                            [] kind = "invalid" ->
                                 Settle(promise, r, "rejected", "Invalid export payload")
                            [] OTHER -> Settle(promise, r, "resolved", "data")
            /\ sent' = <<>>
            /\ last' = Result("export_result", c, clientSessions[c], "ok", r)
            /\ UNCHANGED <<browser, calc, recipients, sessions, highest, clock, chanVars, pendingMermaidConversions,
                           pendingSkeletonBatches, nextReq, nextBatch, staged>>


\* ------------------------------------------------------------ tool inputs

NoPoints == -1                      \* an input without a points field
ToolInput(id, type, points) == [id |-> id, type |-> type, points |-> points]
ToolElementInputs ==
    { <<ToolInput("r1", "rectangle", NoPoints)>>,
      <<ToolInput("a2", "arrow", 1)>> }
ElementIds == {"e1", "a1", "r1", "a2", "g_agent", "zz"}

\* createExcalidrawElement: points default to [[0,0],[width,height]] on linear types
createExcalidrawElement(input) ==
    [ id |-> input.id, type |-> input.type,
      points |-> IF input.type \in LINEAR_ELEMENT_TYPES
                 THEN IF input.points = NoPoints THEN 2 ELSE input.points
                 ELSE 0,
      isDeleted |-> FALSE, version |-> 1 ]

\* createElementSkeleton: the input's fields as given
createElementSkeleton(input) ==
    [ id |-> input.id, type |-> input.type,
      points |-> IF input.type \in LINEAR_ELEMENT_TYPES /\ input.points # NoPoints
                 THEN input.points ELSE 0,
      isDeleted |-> FALSE, version |-> 0 ]

\* TEMPLATE_ELEMENTS: rectangles and arrows without points (one of each kind kept)
TEMPLATE_ELEMENTS == <<Element("g_agent", "rectangle", 0), Element("a1", "arrow", 0)>>

MapSeq(s, Op(_)) == [i \in 1 .. Len(s) |-> Op(s[i])]

\* A search that settles for the first entry whenever there is one.
FindFirstEntry(els, id) == IF els = <<>> THEN 0 ELSE 1

\* Array.prototype.findIndex by id: 0 when absent
FindIndex(els, id) ==
    LET hits == {i \in 1 .. Len(els) : els[i].id = id}
    IN IF hits = {} THEN 0 ELSE CHOOSE j \in hits : \A k \in hits : j <= k

\* A handler without the try/catch: the exception leaves the handler.
ToolThrewUncaught(op, sid) ==
    /\ sent' = <<>>
    /\ last' = Result(op, "", sid, "exception", NoRef)
    /\ UNCHANGED <<browser, calc, recipients, sessions, highest, clock, chanVars, ledgerVars, staged>>

\* The result of a tool whose try block threw (isError: true).
ToolThrew(op, sid) ==
    /\ sent' = <<>>
    /\ last' = Result(op, "", sid, "error", NoRef)
    /\ UNCHANGED <<browser, calc, recipients, sessions, highest, clock, chanVars, ledgerVars, staged>>

\* ------------------------------------------------------------------ tools
\* add_elements, the variant that stores full elements and broadcasts 'update'
AddElements(sid, inp) ==
    IF GetSessionThrows(sessions, sid) THEN ToolThrew("add_elements", sid)
    ELSE LET s0 == getSession(sessions, sid)[sid]
             s2 == Bump([s0 EXCEPT !.elements = @ \o MapSeq(inp, createExcalidrawElement)])
         IN /\ s0.version < MaxVersion
            /\ Len(s2.elements) <= MaxElems
            /\ sessions' = updateSession(sessions, s2)
            /\ highest' = Observed(sessions')
            /\ sent' = broadcastToSession(sid, ToolUpdateOf(s2), "")
            /\ last' = Result("add_elements", "", sid, "ok", NoRef)
            /\ UNCHANGED <<browser, calc, recipients, clock, chanVars, ledgerVars, staged>>

\* add_elements, the variant without a sessionId: it works on the default session
\* and broadcasts to every connection.
AddElementsLegacy(inp) ==
    LET sid == DEFAULT_SESSION_ID
        s0 == getSession(sessions, sid)[sid]
        s2 == Bump([s0 EXCEPT !.elements = @ \o MapSeq(inp, createExcalidrawElement)])
    IN /\ s0.version < MaxVersion
       /\ Len(s2.elements) <= MaxElems
       /\ sessions' = updateSession(sessions, s2)
       /\ highest' = Observed(sessions')
       /\ sent' = broadcast(ToolUpdateOf(s2), "")
       /\ last' = Result("add_elements_legacy", "", sid, "ok", NoRef)
       /\ UNCHANGED <<browser, calc, recipients, clock, chanVars, ledgerVars, staged>>

BackgroundInputs == {"", "#000000"}     \* viewBackgroundColor absent / given

\* create_diagram: a session under a fresh id, broadcast to every connection
CreateDiagram(id, bg) ==
    /\ id \in NewIds \ DOMAIN sessions
    /\ LET s0 == NewSession(id)
           s1 == IF bg # "" THEN [s0 EXCEPT !.appState.viewBackgroundColor = bg] ELSE s0
       IN /\ sessions' = MapSet(sessions, id, s1)
          /\ highest' = Observed(sessions')
          /\ sent' = broadcast(ToolUpdateOf(s1), "")
    /\ last' = ResultOn("create_diagram", id, "ok", bg)
    /\ UNCHANGED <<browser, calc, recipients, clock, chanVars, ledgerVars, staged>>

\* update_element: Object.assign(element, updates); the session version is not
\* touched. updates is a record of the fields to assign.
UpdateInputs == {[points |-> 1]}
UpdateElement(sid, id, updates) ==
    IF GetSessionThrows(sessions, sid) THEN ToolThrew("update_element", sid)
    ELSE LET store == getSession(sessions, sid)
             s0 == store[sid]
             i == FindIndex(s0.elements, id)
         IN IF i = 0
            THEN /\ sessions' = store
                 /\ highest' = Observed(sessions')
                 /\ sent' = <<>>
                 /\ last' = ResultOn("update_element", sid, "ElementNotFound", id)
                 /\ UNCHANGED <<browser, calc, recipients, clock, chanVars, ledgerVars, staged>>
            ELSE LET s2 == [s0 EXCEPT !.elements[i].points = updates.points,
                                      !.elements[i].version = @ + 1]
                 IN /\ s0.elements[i].version < MaxElVersion
                    /\ sessions' = updateSession(sessions, s2)
                    /\ highest' = Observed(sessions')
                    /\ sent' = broadcastToSession(sid, ToolUpdateOf(s2), "")
                    /\ last' = ResultOn("update_element", sid, "ok", id)
                    /\ UNCHANGED <<browser, calc, recipients, clock, chanVars, ledgerVars, staged>>

\* elements.splice(index, 1): the entry is taken out of the array.
spliceOut(els, i) == [k \in 1 .. Len(els) - 1 |-> IF k < i THEN els[k] ELSE els[k + 1]]

\* deletedElement.isDeleted = true on session.elements[index]; the updated
\* timestamp it also sets is not part of the modelled element.
tombstone(els, i) == [els EXCEPT ![i].isDeleted = TRUE]

\* delete_element: the tombstone
DeleteElement(sid, id) ==
    IF GetSessionThrows(sessions, sid) THEN ToolThrew("delete_element", sid)
    ELSE LET store == getSession(sessions, sid)
             s0 == store[sid]
             i == FindIndex(s0.elements, id)
         IN IF i = 0
            THEN /\ sessions' = store
                 /\ highest' = Observed(sessions')
                 /\ sent' = <<>>
                 /\ last' = ResultOn("delete_element", sid, "ElementNotFound", id)
                 /\ UNCHANGED <<browser, calc, recipients, clock, chanVars, ledgerVars, staged>>
            ELSE LET s2 == Bump([s0 EXCEPT !.elements = tombstone(@, i)])
                 IN /\ s0.version < MaxVersion
                    /\ sessions' = updateSession(sessions, s2)
                    /\ highest' = Observed(sessions')
                    /\ sent' = broadcastToSession(sid, ToolUpdateOf(s2), "")
                    /\ last' = ResultOn("delete_element", sid, "ok", id)
                    /\ UNCHANGED <<browser, calc, recipients, clock, chanVars, ledgerVars, staged>>

\* session.elements.filter((el) => !el.isDeleted)
activeElements(s) == SelectSeq(s.elements, LAMBDA el : ~el.isDeleted)

\* A get_scene that stores the session it read, as the mutating tools do.
GetSceneTouching(sid) ==
    IF GetSessionThrows(sessions, sid) THEN ToolThrew("get_scene", sid)
    ELSE /\ sessions' = updateSession(getSession(sessions, sid),
                                      getSession(sessions, sid)[sid])
         /\ highest' = Observed(sessions')
         /\ sent' = <<>>
         /\ last' = [Result("get_scene", "", sid, "ok",
                            Len(activeElements(getSession(sessions, sid)[sid])))
                        EXCEPT !.arg = getSession(sessions, sid)[sid].appState.viewBackgroundColor]
         /\ UNCHANGED <<browser, calc, recipients, clock, chanVars, ledgerVars, staged>>

\* get_scene: its result reports the number of active elements (ref) and the
\* canvas background (arg)
GetScene(sid) ==
    IF GetSessionThrows(sessions, sid) THEN ToolThrew("get_scene", sid)
    ELSE /\ sessions' = getSession(sessions, sid)
         /\ highest' = Observed(sessions')
         /\ sent' = <<>>
         /\ last' = [Result("get_scene", "", sid, "ok",
                            Len(activeElements(getSession(sessions, sid)[sid])))
                        EXCEPT !.arg = getSession(sessions, sid)[sid].appState.viewBackgroundColor]
         /\ UNCHANGED <<browser, calc, recipients, clock, chanVars, ledgerVars, staged>>

\* enqueueSkeletonBatch(sessionId, skeletons, appState): ledger after, messages sent
enqueueSkeletonBatch(psb, sid, skeletons, appState) ==
    LET batch == [batchId |-> nextBatch, skeletons |-> skeletons, appState |-> appState,
                  synced |-> FALSE, createdAt |-> clock]
        old == IF sid \in DOMAIN psb THEN psb[sid] ELSE <<>>
        to == SetToSeq(ClientsOf(sessionClients, sid))
    IN [ psb |-> cleanupSkeletonBatches(MapSet(psb, sid, Append(old, batch)), sid),
         msgs |-> SeqConcat([i \in 1 .. Len(to) |-> sendSkeletonBatch(to[i], batch)]) ]

\* add_template_architecture
AddTemplateArchitecture(sid, reset) ==
    IF GetSessionThrows(sessions, sid) THEN ToolThrew("add_template_architecture", sid)
    ELSE LET s0 == getSession(sessions, sid)[sid]
             s1 == IF reset THEN [s0 EXCEPT !.elements = <<>>] ELSE s0
             s2 == Bump([s1 EXCEPT !.elements = @ \o TEMPLATE_ELEMENTS])
             enq == enqueueSkeletonBatch(pendingSkeletonBatches, sid, TEMPLATE_ELEMENTS,
                                         s2.appState)
         IN /\ s0.version < MaxVersion
            /\ Len(s2.elements) <= MaxElems
            /\ nextBatch <= MaxBatch
            /\ sessions' = updateSession(sessions, s2)
            /\ highest' = Observed(sessions')
            /\ pendingSkeletonBatches' = enq.psb
            /\ nextBatch' = nextBatch + 1
            /\ sent' = enq.msgs
            /\ last' = Result("add_template_architecture", "", sid, "ok", nextBatch)
            /\ UNCHANGED <<browser, calc, recipients, clock, chanVars, pendingExports, pendingMermaidConversions,
                           timers, promise, nextReq, staged>>


\* ----------------------------------------------------------- the ledgers
\* requestMermaidConversion({sessionId, mermaidDiagram, reset}): ledger after the
\* call and the messages sent. The entry is stored undispatched, then sent to every
\* client of the session; it is dispatched once one send succeeded.
requestMermaidConversion(pmc, sid, reset) ==
    LET r == nextReq
        pending == [requestId |-> r, sessionId |-> sid, reset |-> reset,
                    dispatched |-> FALSE]
        to == SetToSeq(ClientsOf(sessionClients, sid))
        msgs == SeqConcat([i \in 1 .. Len(to) |->
                             sendMermaidConversionRequest(to[i], pending)])
    IN [ pmc |-> MapSet(pmc, r, [pending EXCEPT !.dispatched = msgs # <<>>]),
         msgs |-> msgs ]

\* create_from_mermaid: getSession, then await requestMermaidConversion
CreateFromMermaid(sid, reset) ==
    IF GetSessionThrows(sessions, sid) THEN ToolThrew("create_from_mermaid", sid)
    ELSE LET req == requestMermaidConversion(pendingMermaidConversions, sid, reset)
         IN /\ nextReq <= MaxReq
            /\ sessions' = getSession(sessions, sid)
            /\ highest' = Observed(sessions')
            /\ pendingMermaidConversions' = req.pmc
            /\ timers' = timers \cup {nextReq}
            /\ promise' = NewPromise(promise, nextReq, "mermaid", sid)
            /\ nextReq' = nextReq + 1
            /\ sent' = req.msgs
            /\ last' = Result("create_from_mermaid", "", sid, "pending", nextReq)
            /\ recipients' = Recorded(recipients, sent')
            /\ UNCHANGED <<browser, calc, clock, chanVars, pendingExports, pendingSkeletonBatches,
                           nextBatch, staged>>

\* A requestExport that does not look for a connection first.
RequestExportUnchecked(sid) ==
    LET to == SetToSeq({c \in ClientsOf(sessionClients, sid) : IsOpen(c)})
    IN /\ nextReq <= MaxReq
       /\ sent' = [i \in 1 .. Len(to) |->
                     Msg(to[i], "export", NoSid, NoVersion, nextReq, <<>>, NoApp)]
       /\ pendingExports' = MapSet(pendingExports, nextReq, [requestId |-> nextReq])
       /\ timers' = timers \cup {nextReq}
       /\ promise' = NewPromise(promise, nextReq, "export", sid)
       /\ nextReq' = nextReq + 1
       /\ last' = Result("requestExport", "", sid, "pending", nextReq)
       /\ UNCHANGED <<browser, calc, recipients, sessions, highest, clock, chanVars, pendingMermaidConversions,
                      pendingSkeletonBatches, nextBatch, staged>>

\* requestExport({sessionId, format, elements, appState})
RequestExport(sid) ==
    IF ClientsOf(sessionClients, sid) = {}
    THEN /\ sent' = <<>>
         /\ last' = Result("requestExport", "", sid, "NoActiveClient", NoRef)
         /\ UNCHANGED <<browser, calc, recipients, sessions, highest, clock, chanVars, ledgerVars, staged>>
    ELSE LET to == SetToSeq({c \in ClientsOf(sessionClients, sid) : IsOpen(c)})
         IN /\ nextReq <= MaxReq
            /\ sent' = [i \in 1 .. Len(to) |->
                          Msg(to[i], "export", NoSid, NoVersion, nextReq, <<>>, NoApp)]
            /\ pendingExports' = MapSet(pendingExports, nextReq, [requestId |-> nextReq])
            /\ timers' = timers \cup {nextReq}
            /\ promise' = NewPromise(promise, nextReq, "export", sid)
            /\ nextReq' = nextReq + 1
            /\ last' = Result("requestExport", "", sid, "pending", nextReq)
            /\ UNCHANGED <<browser, calc, recipients, sessions, highest, clock, chanVars, pendingMermaidConversions,
                           pendingSkeletonBatches, nextBatch, staged>>

\* A timeout callback that rejects and keeps the ledger entry.
ExportTimeoutKeeping(r) ==
    /\ r \in timers
    /\ promise[r].kind = "export"
    /\ timers' = timers \ {r}
    /\ promise' = Settle(promise, r, "rejected", "timeout")
    /\ sent' = <<>>
    /\ last' = Result("export_timeout", "", promise[r].sid, "ok", r)
    /\ UNCHANGED <<browser, calc, recipients, sessions, highest, clock, chanVars, pendingExports,
                   pendingMermaidConversions, pendingSkeletonBatches, nextReq,
                   nextBatch, staged>>

\* The setTimeout callback of requestExport
ExportTimeout(r) ==
    /\ r \in timers
    /\ promise[r].kind = "export"
    /\ timers' = timers \ {r}
    /\ pendingExports' = MapDelete(pendingExports, r)
    /\ promise' = Settle(promise, r, "rejected", "timeout")
    /\ sent' = <<>>
    /\ last' = Result("export_timeout", "", promise[r].sid, "ok", r)
    /\ UNCHANGED <<browser, calc, recipients, sessions, highest, clock, chanVars, pendingMermaidConversions,
                   pendingSkeletonBatches, nextReq, nextBatch, staged>>

\* The setTimeout callback of requestMermaidConversion
MermaidTimeout(r) ==
    /\ r \in timers
    /\ promise[r].kind = "mermaid"
    /\ timers' = timers \ {r}
    /\ pendingMermaidConversions' = MapDelete(pendingMermaidConversions, r)
    /\ promise' = Settle(promise, r, "rejected", "timeout")
    /\ sent' = <<>>
    /\ last' = Result("mermaid_timeout", "", promise[r].sid, "ok", r)
    /\ UNCHANGED <<browser, calc, recipients, sessions, highest, clock, chanVars, pendingExports,
                   pendingSkeletonBatches, nextReq, nextBatch, staged>>

\* What create_from_mermaid returns once the promise p it awaits has settled:
\* the success text, or the catch block's isError result with the message.
createFromMermaidResult(p) ==
    IF p.state = "resolved"
    THEN [isError |-> FALSE, text |-> "Mermaid conversion request completed."]
    ELSE [isError |-> TRUE,
          text |-> IF p.why = "timeout" THEN "Error: Mermaid conversion timeout"
                   ELSE "Error: " \o p.why]

\* ------------------------------------------------------------------ time
\* Date.now() advances
Tick ==
    /\ clock < MaxClock
    /\ clock' = clock + 1
    /\ sent' = <<>>
    /\ last' = Result("tick", "", NoSid, "ok", NoRef)
    /\ UNCHANGED <<browser, calc, recipients, sessions, highest, chanVars, ledgerVars, staged>>

\* setInterval(cleanupExpiredSessions, ...). A suspended add_elements call keeps
\* the session object it holds when the store drops it.
Sweep ==
    /\ sessions' = cleanupExpiredSessions(sessions)
    /\ highest' = Observed(sessions')
    /\ staged' = IF staged.active /\ ~staged.detached
                    /\ staged.sid \in DOMAIN sessions
                    /\ staged.sid \notin DOMAIN sessions'
                 THEN [staged EXCEPT !.detached = TRUE, !.obj = sessions[staged.sid]]
                 ELSE staged
    /\ sent' = <<>>
    /\ last' = Result("sweep", "", NoSid, "ok", Cardinality(DOMAIN sessions) - Cardinality(DOMAIN sessions'))
    /\ UNCHANGED <<browser, calc, recipients, clock, chanVars, ledgerVars>>


\* ------------------------------------------- add_elements, skeleton staging
\* waitForSessionClient(sessionId, 10000): whether a client is connected
waitForSessionClient(sid) == ClientsOf(sessionClients, sid) # {}

\* The part of add_elements after the wait, on the session object s0 the call holds
StageSkeletons(s0, inp) ==
    LET s2 == Bump([s0 EXCEPT !.elements = @ \o MapSeq(inp, createElementSkeleton)])
    IN /\ s0.version < MaxVersion
       /\ Len(s2.elements) <= MaxElems
       /\ sessions' = updateSession(sessions, s2)
       /\ highest' = Observed(sessions')
       /\ sent' = broadcastToSession(s0.id,
                     Msg("", "add_elements", NoSid, NoVersion, NoRef,
                         MapSeq(inp, createElementSkeleton), s2.appState), "")
       /\ last' = Result("add_elements_staged", "", s0.id, "ok", NoRef)

\* add_elements, the variant that stages skeletons: with a client connected it
\* runs through; without one it is suspended in the wait.
AddElementsStaged(sid, inp) ==
    IF GetSessionThrows(sessions, sid) THEN ToolThrew("add_elements_staged", sid)
    ELSE IF waitForSessionClient(sid)
    THEN /\ StageSkeletons(getSession(sessions, sid)[sid], inp)
         /\ UNCHANGED <<browser, calc, recipients, clock, chanVars, ledgerVars, staged>>
    ELSE /\ ~staged.active
         /\ sessions' = getSession(sessions, sid)
         /\ highest' = Observed(sessions')
         /\ staged' = [NoStaged EXCEPT !.active = TRUE, !.sid = sid, !.inp = inp]
         /\ sent' = <<>>
         /\ last' = Result("add_elements_staged", "", sid, "waiting", NoRef)
         /\ UNCHANGED <<browser, calc, recipients, clock, chanVars, ledgerVars>>

\* The wait ends because a client of the session is connected.
StagedResume ==
    /\ staged.active
    /\ waitForSessionClient(staged.sid)
    /\ StageSkeletons(IF staged.detached THEN staged.obj ELSE sessions[staged.sid],
                      staged.inp)
    /\ staged' = NoStaged
    /\ UNCHANGED <<browser, calc, recipients, clock, chanVars, ledgerVars>>

\* A wait that runs out and has the skeletons staged all the same.
StagedTimeoutDispatching ==
    /\ staged.active
    /\ ~waitForSessionClient(staged.sid)
    /\ StageSkeletons(IF staged.detached THEN staged.obj
                      ELSE getSession(sessions, staged.sid)[staged.sid], staged.inp)
    /\ staged' = NoStaged
    /\ UNCHANGED <<browser, calc, recipients, clock, chanVars, ledgerVars>>

\* The wait ends after 10 s without a client.
StagedTimeout ==
    /\ staged.active
    /\ ~waitForSessionClient(staged.sid)
    /\ staged' = NoStaged
    /\ sent' = <<>>
    /\ last' = Result("add_elements_staged", "", staged.sid, "NoActiveClient", NoRef)
    /\ UNCHANGED <<browser, calc, recipients, sessions, highest, clock, chanVars, ledgerVars>>


\* ------------------------------------------------------------ the system
\* The inputs the specifications draw from.
P1 == Payload(TRUE, 1, <<Element("e1", "rectangle", 0)>>)
Acks == BatchIds \cup {NoRef}
Refs == ReqIds \cup {NoRef}

\* The Session Store under the tools, the inbound edits of a client, the
\* clock and the TTL sweep.
StoreNext ==
    \/ \E c \in {"c1"}, sid \in {"s1"} : Connect(c, sid)
    \/ \E c \in {"c1"} : Close(c)
    \/ \E c \in {"c1"} : Update(c, P1, AppAbsent)
    \/ \E c \in {"c1"} : ElementsConverted(c, P1, NoRef)
    \/ \E sid \in {"s1"}, inp \in ToolElementInputs : AddElements(sid, inp)
    \/ \E sid \in {"s1"}, id \in {"r1", "zz"}, u \in UpdateInputs :
          UpdateElement(sid, id, u)
    \/ \E sid \in {"s1"}, id \in {"r1", "a1", "zz"} : DeleteElement(sid, id)
    \/ \E sid \in {"s1"} : AddTemplateArchitecture(sid, TRUE)
    \/ \E sid \in SessionIds : GetScene(sid)
    \/ Tick
    \/ Sweep

Spec == Init /\ [][StoreNext]_vars

\* The conversion ledger: requests for session s1, the connections that come,
\* rebind and go, their ready messages and answers, and the request timers.
ConvNext ==
    \/ \E c \in Conns, sid \in SessionIds : Connect(c, sid)
    \/ \E c \in Conns : BeginClose(c)
    \/ \E c \in Conns : Close(c)
    \/ \E c \in Conns, sid \in SessionIds : JoinSessionMsg(c, sid)
    \/ \E c \in Conns : Ready(c, NoRef)
    \/ \E c \in Conns, r \in Refs : MermaidConverted(c, r, P1, AppAbsent)
    \/ \E c \in Conns, r \in Refs : MermaidConvertError(c, r)
    \/ \E sid \in {"s1"} : CreateFromMermaid(sid, FALSE)
    \/ \E r \in ReqIds : MermaidTimeout(r)

SpecConv == Init /\ [][ConvNext]_vars

\* Both request ledgers: exports and conversions for session s1, every answer a
\* client can give (also for an id that is unknown or already settled), the timers.
LedgerNext ==
    \/ \E c \in Conns, sid \in {"s1"} : Connect(c, sid)
    \/ \E c \in Conns : Close(c)
    \/ \E c \in Conns, r \in Refs, k \in ExportResultKinds : ExportResult(c, r, k)
    \/ \E c \in Conns, r \in Refs : MermaidConverted(c, r, P1, AppAbsent)
    \/ \E c \in Conns, r \in Refs : MermaidConvertError(c, r)
    \/ \E sid \in {"s1"} : CreateFromMermaid(sid, FALSE)
    \/ \E sid \in {"s1"} : RequestExport(sid)
    \/ \E r \in ReqIds : ExportTimeout(r)
    \/ \E r \in ReqIds : MermaidTimeout(r)

SpecLedger == Init /\ [][LedgerNext]_vars

\* An armed setTimeout fires unless it is cleared: the event loop runs its callback.
TimersFire ==
    \A r \in ReqIds : WF_vars(ExportTimeout(r)) /\ WF_vars(MermaidTimeout(r))

SpecLedgerFair == Init /\ [][LedgerNext]_vars /\ TimersFire

\* A client of s1 returns the converted elements of a batch that was issued.
BatchConverted(c, b) ==
    /\ b < nextBatch
    /\ clientSessions[c] = "s1"
    /\ ElementsConverted(c, P1, b)

\* The replay on ready: skeleton batches and conversion requests of session s1,
\* connections that join, rebind, acknowledge and leave.
ChannelNext ==
    \/ \E c \in Conns, sid \in SessionIds : Connect(c, sid)
    \/ \E c \in Conns : Close(c)
    \/ \E c \in Conns, sid \in SessionIds : JoinSessionMsg(c, sid)
    \/ \E c \in Conns, ack \in Acks : Ready(c, ack)
    \/ \E c \in Conns, b \in BatchIds : BatchConverted(c, b)
    \/ \E sid \in {"s1"} : CreateFromMermaid(sid, FALSE)
    \/ \E sid \in {"s1"} : AddTemplateArchitecture(sid, TRUE)

SpecChannel == Init /\ [][ChannelNext]_vars

\* Two sessions and their connections under the tools that broadcast: the tools
\* with a sessionId, the add_elements without one, and create_diagram.
\* The appState boundary: clients send every kind of appState in update and
\* mermaid_converted, tools and replays send the stored appState back out.
AppStateNext ==
    \/ \E c \in Conns, sid \in {"s1"} : Connect(c, sid)
    \/ \E c \in Conns : Close(c)
    \/ \E c \in Conns, sid \in {"s1"} : JoinSessionMsg(c, sid)
    \/ \E c \in Conns, ack \in Acks : Ready(c, ack)
    \/ \E c \in Conns, a \in AppPayloads : Update(c, P1, a)
    \/ \E c \in Conns, r \in Refs, a \in AppPayloads : MermaidConverted(c, r, P1, a)
    \/ \E sid \in {"s1"} : CreateFromMermaid(sid, FALSE)
    \/ \E sid \in {"s1"} : AddTemplateArchitecture(sid, TRUE)
    \/ \E sid \in {"s1"}, id \in {"e1"} : DeleteElement(sid, id)

SpecAppState == Init /\ [][AppStateNext]_vars

\* The command surface called with valid and invalid session ids, known and
\* unknown element ids, with and without a client, and conversions that are
\* answered, rejected by the client or timed out.
CallIds == {"s1", BadId}
CallsNext ==
    \/ \E c \in {"c1"}, sid \in {"s1"} : Connect(c, sid)
    \/ \E c \in {"c1"} : Close(c)
    \/ \E sid \in CallIds : AddElements(sid, <<ToolInput("r1", "rectangle", NoPoints)>>)
    \/ \E sid \in CallIds, id \in {"r1", "zz"}, u \in UpdateInputs :
          UpdateElement(sid, id, u)
    \/ \E sid \in CallIds, id \in {"r1", "zz"} : DeleteElement(sid, id)
    \/ \E sid \in CallIds : GetScene(sid)
    \/ \E sid \in CallIds : CreateFromMermaid(sid, FALSE)
    \/ \E c \in {"c1"}, r \in ReqIds : MermaidConvertError(c, r)
    \/ \E r \in ReqIds : MermaidTimeout(r)
    \/ \E sid \in CallIds :
          AddElementsStaged(sid, <<ToolInput("r1", "rectangle", NoPoints)>>)
    \/ StagedResume
    \/ StagedTimeout

SpecCalls == Init /\ [][CallsNext]_vars

\* ------------------------------------------- elements as add_elements builds them
\* An element of the tool's input with the fields that decide size and binding.
\* text is the length of the text (0: none or empty), fontSize, width and height
\* are 0 when the field is absent, containerId is "" when absent. Sizes of the
\* built elements are in hundredths of a pixel.
NoSize == -1
Hundredths(px) == px * 100
ElementInput(id, type, text, fontSize, width, containerId) ==
    [id |-> id, type |-> type, text |-> text, fontSize |-> fontSize, width |-> width,
     height |-> width, containerId |-> containerId]

\* createExcalidrawElement: width, height, containerId and boundElements of the
\* element it returns
createExcalidrawElementSized(input) ==
    LET estimated == input.type = "text" /\ input.text # 0
        fontSize == IF input.fontSize # 0 THEN input.fontSize ELSE 20
        defaultWidth == IF estimated THEN input.text * fontSize * 60 + Hundredths(10)
                        ELSE Hundredths(100)
        defaultHeight == IF estimated THEN fontSize * 125 ELSE Hundredths(100)
    IN [ id |-> input.id, type |-> input.type,
         width |-> IF input.width # 0 THEN Hundredths(input.width) ELSE defaultWidth,
         height |-> IF input.height # 0 THEN Hundredths(input.height) ELSE defaultHeight,
         containerId |-> IF input.type = "text" THEN input.containerId ELSE "",
         boundElements |-> <<>> ]

\* createElementSkeleton: the fields of the input that are present, nothing derived
createElementSkeletonSized(input) ==
    [ id |-> input.id, type |-> input.type,
      width |-> IF input.width # 0 THEN Hundredths(input.width) ELSE NoSize,
      height |-> IF input.height # 0 THEN Hundredths(input.height) ELSE NoSize,
      containerId |-> input.containerId,
      boundElements |-> <<>> ]

\* newElements.forEach: a text element with a containerId is pushed onto the
\* boundElements of the first new element that has this id.
RECURSIVE bindTexts(_, _)
bindTexts(newElements, k) ==
    IF k > Len(newElements) THEN newElements
    ELSE LET el == newElements[k]
             c == FindIndex(newElements, el.containerId)
         IN IF el.type = "text" /\ el.containerId # "" /\ c # 0
            THEN bindTexts([newElements EXCEPT ![c].boundElements =
                               Append(@, [type |-> "text", id |-> el.id])], k + 1)
            ELSE bindTexts(newElements, k + 1)

\* The elements add_elements pushes onto the session, in its two forms; one
\* call is evaluated per behaviour.
CalcAddElements(inputs) ==
    /\ calc = NoCalc
    /\ calc' = [op |-> "add_elements", input |-> inputs,
                output |-> bindTexts([i \in DOMAIN inputs |->
                                        createExcalidrawElementSized(inputs[i])], 1)]
    /\ UNCHANGED <<serverVars, browser>>

CalcAddElementsStaged(inputs) ==
    /\ calc = NoCalc
    /\ calc' = [op |-> "add_elements_staged", input |-> inputs,
                output |-> [i \in DOMAIN inputs |->
                              createElementSkeletonSized(inputs[i])]]
    /\ UNCHANGED <<serverVars, browser>>

\* Rectangles and texts with and without size, font size, text and container.
SizedInputs ==
    { ElementInput("r1", "rectangle", 0, 0, w, "") : w \in {0, 50} }
      \cup { ElementInput("t1", "text", n, f, w, c) :
                n \in {0, 10}, f \in {0, 20, 16}, w \in {0, 50}, c \in {"", "r1", "zz"} }
SizedBatches == UNION { [1 .. n -> SizedInputs] : n \in 1 .. MaxInputs }

CreateNext ==
    \/ calc = NoCalc /\ \E inputs \in SizedBatches : CalcAddElements(inputs)
    \/ calc = NoCalc /\ \E inputs \in SizedBatches : CalcAddElementsStaged(inputs)

SpecCreate == Init /\ [][CreateNext]_vars

\* ------------------------------------------- text and label in update_element
\* A field that is not there.
Absent == "<absent>"
LabelFields == {"text", "textAlign", "verticalAlign", "fontSize"}
Label(text, textAlign, verticalAlign, fontSize) ==
    [text |-> text, textAlign |-> textAlign, verticalAlign |-> verticalAlign,
     fontSize |-> fontSize]
\* No label, or the empty object the handler takes in its place.
NoLabel == Label(Absent, Absent, Absent, Absent)
\* The schema makes text a required string of a label that is given.
HasLabel(r) == r.label.text # Absent
\* JavaScript truthiness of an optional string
Truthy(s) == s # Absent /\ s # ""

\* normalizedUpdates: text and label of the updates as the handler rewrites them
\* for an element that is no text element
normalizeUpdates(element, updates) ==
    IF element.type = "text" THEN updates
    ELSE LET shapeText == updates.text
             incomingLabel == updates.label
         IN IF HasLabel(updates) \/ Truthy(shapeText)
            THEN LET prevLabel == element.label
                     spread == [f \in LabelFields |->
                                  IF HasLabel(updates) /\ incomingLabel[f] # Absent
                                  THEN incomingLabel[f] ELSE prevLabel[f]]
                     nextLabel ==
                        [spread EXCEPT
                           !.text = IF Truthy(shapeText) THEN shapeText ELSE @,
                           !.textAlign = IF @ = Absent THEN "center" ELSE @,
                           !.verticalAlign = IF @ = Absent THEN "middle" ELSE @]
                 IN [text |-> Absent, label |-> nextLabel]
            ELSE updates

\* Object.assign(element, updates) on the fields text and label
ObjectAssign(element, updates) ==
    [element EXCEPT !.text = IF updates.text # Absent THEN updates.text ELSE @,
                    !.label = IF HasLabel(updates) THEN updates.label ELSE @]

\* update_element with the label normalization, and the handler that assigns
\* the updates as they are; one call is evaluated per behaviour.
CalcUpdateElement(element, updates) ==
    /\ calc = NoCalc
    /\ calc' = [op |-> "update_element", input |-> <<element, updates>>,
                output |-> ObjectAssign(element, normalizeUpdates(element, updates))]
    /\ UNCHANGED <<serverVars, browser>>

CalcUpdateElementPlain(element, updates) ==
    /\ calc = NoCalc
    /\ calc' = [op |-> "update_element", input |-> <<element, updates>>,
                output |-> ObjectAssign(element, updates)]
    /\ UNCHANGED <<serverVars, browser>>

\* Stored shapes and texts with and without a label, and updates with and
\* without text (the empty string included) and label.
LabelledElements ==
    { [type |-> ty, text |-> IF ty = "text" THEN "old" ELSE Absent, label |-> l] :
         ty \in {"rectangle", "ellipse", "text"},
         l \in {NoLabel, Label("old", "left", Absent, "16"),
                Label("old", Absent, "top", Absent)} }
TextUpdates ==
    { [text |-> tx, label |-> l] :
         tx \in {Absent, "", "Hi", "Bye"},
         l \in {NoLabel, Label("L", Absent, Absent, Absent),
                Label("L", "right", "bottom", Absent)} }

LabelNext ==
    \/ calc = NoCalc /\ \E el \in LabelledElements, u \in TextUpdates :
                           CalcUpdateElement(el, u)
    \/ calc = NoCalc /\ \E el \in LabelledElements, u \in TextUpdates :
                           CalcUpdateElementPlain(el, u)

SpecLabel == Init /\ [][LabelNext]_vars

\* ------------------------------------------------------ the browser client
\* An element of the client's scene. Its id is the id the server gave (n = 0) or
\* the n-th id the converter generated.
SceneElement(name, n, from) == [id |-> <<name, n>>, from |-> from]
Skeleton(id, label) == [id |-> id, label |-> label]

\* convertToExcalidrawElements(skeletons, {regenerateIds: false}): one element
\* per skeleton under the skeleton's id, followed by one text element under a
\* generated id for every skeleton that carries a label.
convertToExcalidrawElements(skeletons, generated) ==
    LET labelled == SelectSeq(skeletons, LAMBDA s : s.label)
    IN [i \in 1 .. Len(skeletons) |-> SceneElement(skeletons[i].id, 0, "converted")]
       \o [k \in 1 .. Len(labelled) |-> SceneElement("text", generated + k, "converted")]

\* Map.set(el.id, el): replaces the value of a known key in place, appends a new key.
SetById(scene, el) ==
    IF \E i \in DOMAIN scene : scene[i].id = el.id
    THEN [i \in DOMAIN scene |-> IF scene[i].id = el.id THEN el ELSE scene[i]]
    ELSE Append(scene, el)

\* A merge that pushes the converted elements behind the current ones.
mergeByAppending(current, new) == current \o new

\* new Map(current.map(el => [el.id, el])), then mergedById.set for every new
\* element, then Array.from(mergedById.values())
RECURSIVE mergeById(_, _)
mergeById(current, new) ==
    IF new = <<>> THEN current
    ELSE mergeById(SetById(current, Head(new)), Tail(new))

elementsConverted(batchId, elements) ==
    [type |-> "elements_converted", batchId |-> batchId, elements |-> elements]

\* ws.send guarded by wsRef.current.readyState === WebSocket.OPEN
BrowserSend(m) == IF browser.wsOpen THEN <<m>> ELSE <<>>

\* onmessage for {type: 'add_elements', batchId?, skeletons}
BrowserAddElements(batchId, skeletons) ==
    LET m == [type |-> "add_elements", batchId |-> batchId, skeletons |-> skeletons]
        currentElements == browser.scene
    IN /\ IF batchId # NoRef /\ batchId \in browser.processed
          THEN browser' = [browser EXCEPT
                             !.wsSent = BrowserSend(elementsConverted(batchId,
                                                                      currentElements)),
                             !.msg = m, !.branch = "processed"]
          ELSE LET newElements == convertToExcalidrawElements(skeletons,
                                                              browser.generated)
                   mergedElements == mergeById(currentElements, newElements)
               IN /\ browser.generated + Len(newElements) - Len(skeletons)
                        <= MaxGenerated
                  /\ browser' =
                        [browser EXCEPT
                           !.scene = mergedElements,
                           !.wsSent = BrowserSend(elementsConverted(batchId,
                                                                    mergedElements)),
                           !.processed = IF batchId # NoRef THEN @ \cup {batchId}
                                         ELSE @,
                           !.generated = @ + Len(newElements) - Len(skeletons),
                           !.msg = m, !.branch = "merged"]
       /\ UNCHANGED <<serverVars, calc>>

\* onmessage for init / update: the scene is replaced by the message's elements
BrowserUpdateScene(elements) ==
    /\ browser' = [browser EXCEPT !.scene = elements, !.wsSent = <<>>,
                                  !.msg = [NoMessage EXCEPT !.type = "update"],
                                  !.branch = "none"]
    /\ UNCHANGED <<serverVars, calc>>

\* The socket of wsRef.current closes, or the reconnect has opened the next one.
BrowserSocket ==
    /\ browser' = [browser EXCEPT !.wsOpen = ~@, !.wsSent = <<>>,
                                  !.msg = [NoMessage EXCEPT !.type = "socket"],
                                  !.branch = "none"]
    /\ UNCHANGED <<serverVars, calc>>

\* What the server sends the client: batches with and without labels and batch
\* id, and the scenes of init and update.
BrowserBatches ==
    { <<Skeleton("r1", FALSE)>>,
      <<Skeleton("g_agent", TRUE), Skeleton("a1", FALSE)>> }
BrowserScenes ==
    { <<>>,
      <<SceneElement("r1", 0, "server")>>,
      <<SceneElement("g_agent", 0, "server"), SceneElement("a1", 0, "server"),
        SceneElement("text", 1, "server")>> }

BrowserNext ==
    \/ \E b \in BatchIds \cup {NoRef}, sk \in BrowserBatches : BrowserAddElements(b, sk)
    \/ \E els \in BrowserScenes : BrowserUpdateScene(els)
    \/ BrowserSocket

SpecBrowser == Init /\ [][BrowserNext]_vars

\* create_diagram next to the session the other tools address by default.
\* get_scene is called without a session id, or with the id create_diagram
\* returned.
DiagramNext ==
    \/ \E c \in Conns, sid \in {DEFAULT_SESSION_ID} : Connect(c, sid)
    \/ \E c \in Conns : Close(c)
    \/ \E sid \in {DEFAULT_SESSION_ID} :
          AddElements(sid, <<ToolInput("r1", "rectangle", NoPoints)>>)
    \/ \E id \in NewIds, bg \in BackgroundInputs : CreateDiagram(id, bg)
    \/ \E sid \in {DEFAULT_SESSION_ID} \cup NewIds : GetScene(sid)
    \/ Tick
    \/ Sweep

SpecDiagram == Init /\ [][DiagramNext]_vars

RectInput == <<ToolInput("r1", "rectangle", NoPoints)>>
IsolationNext ==
    \/ \E c \in Conns, sid \in SessionIds : Connect(c, sid)
    \/ \E c \in Conns : BeginClose(c)
    \/ \E c \in Conns : Close(c)
    \/ \E c \in Conns, sid \in SessionIds : JoinSessionMsg(c, sid)
    \/ \E c \in Conns : Update(c, P1, AppAbsent)
    \/ \E sid \in SessionIds : AddElements(sid, RectInput)
    \/ \E sid \in SessionIds : DeleteElement(sid, "r1")
    \/ \E sid \in SessionIds, u \in UpdateInputs : UpdateElement(sid, "r1", u)
    \/ AddElementsLegacy(RectInput)
    \/ \E id \in NewIds, bg \in BackgroundInputs : CreateDiagram(id, bg)

SpecIsolation == Init /\ [][IsolationNext]_vars

\* The inbound messages of the clients of s1, well-formed and malformed.
InboundNext ==
    \/ \E c \in Conns, sid \in {"s1"} : Connect(c, sid)
    \/ \E c \in Conns : BeginClose(c)
    \/ \E c \in Conns : Close(c)
    \/ \E c \in Conns : Malformed(c)
    \/ \E c \in Conns, p \in ElementsPayloads, a \in AppPayloads : Update(c, p, a)
    \/ \E c \in Conns, p \in ElementsPayloads : ElementsConverted(c, p, NoRef)
    \/ \E c \in Conns, r \in Refs, p \in ElementsPayloads, a \in AppPayloads :
          MermaidConverted(c, r, p, a)
    \/ \E sid \in {"s1"} : CreateFromMermaid(sid, FALSE)

SpecInbound == Init /\ [][InboundNext]_vars

\* Connections that open on a session and rebind, also to an invalid id, while
\* the sessions change under edits and tools.
ArrowInput == <<ToolInput("a2", "arrow", 1)>>
JoinNext ==
    \/ \E c \in Conns, sid \in SessionIds : Connect(c, sid)
    \/ \E c \in Conns : Close(c)
    \/ \E c \in Conns, sid \in AllIds : JoinSessionMsg(c, sid)
    \/ \E c \in Conns : Ping(c)
    \/ \E c \in Conns, a \in AppPayloads : Update(c, P1, a)
    \/ \E sid \in SessionIds : AddElements(sid, ArrowInput)

SpecJoin == Init /\ [][JoinNext]_vars

\* Connections that open, rebind (also to an invalid id and to the empty
\* string) and close.
MapsNext ==
    \/ \E c \in Conns, sid \in SessionIds : Connect(c, sid)
    \/ \E c \in Conns : BeginClose(c)
    \/ \E c \in Conns : Close(c)
    \/ \E c \in Conns, sid \in AllIds : JoinSessionMsg(c, sid)
    \/ \E c \in Conns : JoinSessionMsgEmpty(c)

SpecMaps == Init /\ [][MapsNext]_vars

\* The handlers that mutate session s1 in several steps, the call that is
\* suspended in its wait for a client, the clock and the sweep.
MutationNext ==
    \/ \E c \in Conns, sid \in {"s1"} : Connect(c, sid)
    \/ \E sid \in {"s1"} : CreateFromMermaid(sid, FALSE)
    \/ \E c \in {"c1"}, r \in ReqIds : MermaidConverted(c, r, P1, AppAbsent)
    \/ \E sid \in {"s1"} : AddTemplateArchitecture(sid, TRUE)
    \/ \E sid \in {"s1"} : AddElementsStaged(sid, RectInput)
    \/ StagedResume
    \/ StagedTimeout
    \/ Tick
    \/ Sweep

SpecMutation == Init /\ [][MutationNext]_vars

\* Conversion requests for session s1 and the connections they are sent to, as
\* these join, send ready, rebind and close; the history of recipients is kept.
DispatchNext ==
    \/ \E c \in Conns, sid \in SessionIds : Connect(c, sid)
    \/ \E c \in Conns : Close(c)
    \/ \E c \in Conns, sid \in SessionIds : JoinSessionMsg(c, sid)
    \/ \E c \in Conns : Ready(c, NoRef)
    \/ \E sid \in {"s1"} : CreateFromMermaid(sid, FALSE)

SpecDispatch == InitRecording /\ [][DispatchNext]_vars

\* Skeleton batches of session s1 and the TTL sweep: the template is staged,
\* the clock runs, the sweep evicts, clients join, send ready and leave.
EvictNext ==
    \/ \E c \in {"c1"}, sid \in {"s1"} : Connect(c, sid)
    \/ \E c \in {"c1"} : Close(c)
    \/ \E c \in {"c1"}, ack \in Acks : Ready(c, ack)
    \/ \E sid \in {"s1"} : AddTemplateArchitecture(sid, TRUE)
    \/ Tick
    \/ Sweep

SpecEvict == Init /\ [][EvictNext]_vars

\* -------------------------------------------------------------- properties
\* The handlers that mutate a session, and a step of one that was accepted.
Mutators ==
    {"add_elements", "add_elements_staged", "update_element", "delete_element",
     "add_template_architecture", "update", "elements_converted", "mermaid_converted"}
AcceptedMutation(l) == l.op \in Mutators /\ l.res = "ok"
VersionOf(store, id) == IF id \in DOMAIN store THEN store[id].version ELSE 0

ListedIds == {e.id : e \in listSessions}
Age(store, id) == clock - store[id].lastUpdated

\* The positions in msgs of the messages of a type about ref that go to c.
SentTo(msgs, c, type, ref) ==
    {k \in DOMAIN msgs : msgs[k].to = c /\ msgs[k].type = type /\ msgs[k].ref = ref}
BatchesOf(psb, sid) == IF sid \in DOMAIN psb THEN psb[sid] ELSE <<>>
UnsyncedIds(psb, sid) ==
    {BatchesOf(psb, sid)[i].batchId :
        i \in {j \in DOMAIN BatchesOf(psb, sid) : ~BatchesOf(psb, sid)[j].synced}}
Undispatched(pmc, sid) ==
    {r \in DOMAIN pmc : pmc[r].sessionId = sid /\ ~pmc[r].dispatched}
InLedger(r) == r \in (DOMAIN pendingExports) \cup (DOMAIN pendingMermaidConversions)
Settled(r) == promise[r].state \in {"resolved", "rejected"}
Answers == {"export_result", "mermaid_converted", "mermaid_convert_error"}
Joins == {"connection", "join_session"}

\* C1: across accepted mutations the version of a session id never becomes
\* smaller than a value the id had before.
VersionNeverSmaller ==
    [][AcceptedMutation(last') =>
          sessions'[last'.sid].version >= highest[last'.sid]]_vars

\* C2: every accepted mutation leaves the session's version greater than it was
\* before the operation.
MutationBumpsVersion ==
    [][AcceptedMutation(last') =>
          sessions'[last'.sid].version > VersionOf(sessions, last'.sid)]_vars

\* C3: a conversion requested for a session without connections is stored
\* undispatched and nothing is sent; a ready in its session sends each undispatched
\* request exactly once to that connection and marks it dispatched; a dispatched
\* request is not sent by a ready, and stays dispatched while its session keeps a
\* connection.
ConversionReplayedOnce ==
    [][ /\ (last'.op = "create_from_mermaid" /\ last'.res = "pending"
              /\ ClientsOf(sessionClients, last'.sid) = {})
           => /\ sent' = <<>>
              /\ ~pendingMermaidConversions'[last'.ref].dispatched
        /\ last'.op = "ready" =>
             \A r \in DOMAIN pendingMermaidConversions :
                IF r \in Undispatched(pendingMermaidConversions, last'.sid)
                THEN /\ Cardinality(SentTo(sent', last'.conn, "mermaid_convert", r)) = 1
                     /\ pendingMermaidConversions'[r].dispatched
                ELSE \A k \in DOMAIN sent' :
                        ~(sent'[k].type = "mermaid_convert" /\ sent'[k].ref = r)
        /\ \A r \in DOMAIN pendingMermaidConversions :
              (/\ pendingMermaidConversions[r].dispatched
               /\ r \in DOMAIN pendingMermaidConversions'
               /\ ClientsOf(sessionClients', pendingMermaidConversions[r].sessionId) # {})
              => pendingMermaidConversions'[r].dispatched
      ]_vars

\* C3 happens: a ready was answered with a conversion request.
ConversionReplayed ==
    /\ last.op = "ready"
    /\ \E k \in DOMAIN sent : sent[k].type = "mermaid_convert" /\ sent[k].to = last.conn

\* C4: requestExport for a session without connections is rejected with
\* NoActiveClient; it sends nothing, enters nothing in the export ledger and
\* starts no timer.
ExportNeedsClient ==
    [][(last'.op = "requestExport" /\ ClientsOf(sessionClients, last'.sid) = {})
          => /\ last'.res = "NoActiveClient"
             /\ sent' = <<>>
             /\ pendingExports' = pendingExports
             /\ timers' = timers
             /\ promise' = promise]_vars

\* C4 happens: an export was rejected for want of a client.
ExportRejected == last.op = "requestExport" /\ last.res = "NoActiveClient"

\* C5: after the sweep every non-default session older than the TTL is gone from
\* the list, every session updated within the TTL is still listed, and so is the
\* default session if it existed, whatever its age.
SweepEvictsExpired ==
    [][last'.op = "sweep" =>
          \A id \in DOMAIN sessions :
             /\ (id # DEFAULT_SESSION_ID /\ Age(sessions, id) > SESSION_TTL)
                   => id \notin ListedIds'
             /\ Age(sessions, id) <= SESSION_TTL => id \in ListedIds'
             /\ id = DEFAULT_SESSION_ID => id \in ListedIds']_vars

\* C5 happens: a sweep evicted a session and kept the default session although
\* that had expired as well.
SweptWithOldDefault ==
    /\ last.op = "sweep"
    /\ last.ref >= 1
    /\ DEFAULT_SESSION_ID \in ListedIds
    /\ Age(sessions, DEFAULT_SESSION_ID) > SESSION_TTL

\* C6: a request is settled at most once and a settled request is in no ledger; an
\* export_result, mermaid_converted or mermaid_convert_error that names a settled
\* request changes no session and no ledger entry and sends nothing.
SettledOnceThenStale ==
    /\ [](\A r \in ReqIds : /\ promise[r].settles <= 1
                            /\ Settled(r) => ~InLedger(r) /\ r \notin timers)
    /\ [][\A r \in ReqIds :
             (Settled(r) /\ last'.op \in Answers /\ last'.ref = r)
             => /\ sessions' = sessions
                /\ pendingExports' = pendingExports
                /\ pendingMermaidConversions' = pendingMermaidConversions
                /\ pendingSkeletonBatches' = pendingSkeletonBatches
                /\ timers' = timers
                /\ promise' = promise
                /\ sent' = <<>>]_vars

\* C6 happens: an answer arrived for a request that had been settled before.
LateAnswer ==
    /\ last.op \in Answers
    /\ last.res = "stale"
    /\ last.ref \in ReqIds
    /\ Settled(last.ref)

\* C7: a request that is in its ledger eventually leaves it, and a timeout that
\* fires rejects its request with the timeout error and removes the entry.
RequestsLeaveLedger ==
    /\ \A r \in ReqIds : InLedger(r) ~> ~InLedger(r)
    /\ [][\A r \in ReqIds :
             (last'.op \in {"export_timeout", "mermaid_timeout"} /\ last'.ref = r)
             => /\ promise'[r].state = "rejected"
                /\ promise'[r].why = "timeout"
                /\ ~InLedger(r)']_vars

\* C7 happens: a conversion timed out while no client was connected.
TimedOutWithoutClient ==
    /\ last.op = "mermaid_timeout"
    /\ promise[last.ref].why = "timeout"
    /\ sessionClients = EmptyMap
    /\ \A c \in Conns : wsState[c] = "none"

\* C8: a ready sends every batch of the connection's session that is unsynced
\* once the ready's acknowledgement has been applied.
ReadyReplaysUnsynced ==
    [][last'.op = "ready" =>
          \A b \in UnsyncedIds(pendingSkeletonBatches', last'.sid) :
             SentTo(sent', last'.conn, "add_elements", b) # {}]_vars

\* C8 happens: a ready acknowledged one batch and was sent another.
ReadyAckedAndReplayed ==
    /\ last.op = "ready"
    /\ \E i \in DOMAIN BatchesOf(pendingSkeletonBatches, last.sid) :
          /\ BatchesOf(pendingSkeletonBatches, last.sid)[i].batchId = last.ref
          /\ BatchesOf(pendingSkeletonBatches, last.sid)[i].synced
    /\ \E k \in DOMAIN sent : sent[k].type = "add_elements" /\ sent[k].ref # last.ref

\* C9 as stated: a join sends the joined session's undispatched conversion
\* requests and unsynced batches to the connection.
JoinReplays ==
    [][(last'.op \in Joins /\ last'.res = "ok") =>
          /\ \A r \in Undispatched(pendingMermaidConversions, last'.sid) :
                SentTo(sent', last'.conn, "mermaid_convert", r) # {}
          /\ \A b \in UnsyncedIds(pendingSkeletonBatches, last'.sid) :
                SentTo(sent', last'.conn, "add_elements", b) # {}]_vars

\* C9 amended: a join sends the connection the init message of the session and
\* nothing else, and leaves both ledgers as they are; the session's undispatched
\* conversion requests and unsynced batches are sent when the connection sends ready.
JoinSendsInitReadyReplays ==
    [][ /\ (last'.op \in Joins /\ last'.res = "ok") =>
             /\ sent' = <<InitOf(last'.conn, sessions'[last'.sid])>>
             /\ pendingMermaidConversions' = pendingMermaidConversions
             /\ pendingSkeletonBatches' = pendingSkeletonBatches
        /\ last'.op = "ready" =>
             /\ \A r \in Undispatched(pendingMermaidConversions, last'.sid) :
                   SentTo(sent', last'.conn, "mermaid_convert", r) # {}
             /\ \A b \in UnsyncedIds(pendingSkeletonBatches', last'.sid) :
                   SentTo(sent', last'.conn, "add_elements", b) # {}
      ]_vars

\* C9 happens: a connection joined a session that had an undispatched conversion
\* request and an unsynced batch.
JoinedWithPending ==
    /\ last.op = "join_session"
    /\ last.res = "ok"
    /\ Undispatched(pendingMermaidConversions, last.sid) # {}
    /\ UnsyncedIds(pendingSkeletonBatches, last.sid) # {}

\* C10: when the connection set of a session becomes empty, every pending
\* conversion request of the session is undispatched.
EmptiedMeansUndispatched ==
    [][\A sid \in SessionIds :
          (/\ ClientsOf(sessionClients, sid) # {}
           /\ ClientsOf(sessionClients', sid) = {})
          => \A r \in DOMAIN pendingMermaidConversions' :
                pendingMermaidConversions'[r].sessionId = sid
                => ~pendingMermaidConversions'[r].dispatched]_vars

\* The operations on a session that send messages about it.
SessionOps == Mutators \cup {"create_diagram", "add_elements_legacy"}

\* C11: the messages of an operation on a session go to open connections bound
\* to that session only.
DeliveredWithinSession ==
    [][(last'.op \in SessionOps /\ last'.res = "ok") =>
          \A k \in DOMAIN sent' :
             /\ IsOpen(sent'[k].to)
             /\ clientSessions[sent'[k].to] = last'.sid]_vars

InboundEdits == {"update", "elements_converted", "mermaid_converted"}
\* The open connections other than c that are bound to session sid.
OpenPeers(c, sid) == {d \in Conns \ {c} : IsOpen(d) /\ clientSessions[d] = sid}

\* C12: an accepted inbound edit from c sends the update of its session to every
\* other open connection bound to the session, once, and to nobody else: not to c.
EditRelayedToPeersOnly ==
    [][(last'.op \in InboundEdits /\ last'.res = "ok") =>
          /\ \A d \in OpenPeers(last'.conn, last'.sid) :
                Cardinality({k \in DOMAIN sent' : sent'[k].to = d}) = 1
          /\ \A k \in DOMAIN sent' :
                /\ sent'[k].to \in OpenPeers(last'.conn, last'.sid)
                /\ sent'[k] = [UpdateOf(sessions'[last'.sid]) EXCEPT !.to = sent'[k].to]
      ]_vars

\* C12 happens: an edit was accepted from a connection that has an open peer.
EditRelayed ==
    /\ last.op \in InboundEdits
    /\ last.res = "ok"
    /\ OpenPeers(last.conn, last.sid) # {}
    /\ sent # <<>>

MalformedStep ==
    \/ last'.op = "malformed"
    \/ last'.op \in InboundEdits /\ last'.arg # "well-formed"

\* C14: a malformed or unrecognized inbound message (no object, unknown type,
\* a bad elements field, an appState that is present but no object) changes no
\* session, no connection map and no ledger, bumps no version and has nothing
\* sent to any connection.
MalformedDropped ==
    [][MalformedStep =>
          /\ UNCHANGED <<sessions, chanVars, ledgerVars>>
          /\ sent' = <<>>]_vars

\* ---- The collaborators key ----

HasCollaborators(appState) == "collaborators" \in DOMAIN appState

\* C15: no stored session's appState has the collaborators key, and no init,
\* update or add_elements message the server sends carries an appState that has
\* it, whatever appState clients send in update and mermaid_converted.
CollaboratorsNeverKept ==
    /\ \A id \in DOMAIN sessions : ~HasCollaborators(sessions[id].appState)
    /\ \A k \in DOMAIN sent :
          sent[k].type \in {"init", "update", "add_elements"} =>
              ~HasCollaborators(sent[k].appState)

\* An appState that came from a client with the collaborators key is stored and
\* goes out again in an add_elements message.
ClientAppStateSentOut ==
    /\ last.op = "add_template_architecture"
    /\ \E k \in DOMAIN sent :
          /\ sent[k].type = "add_elements"
          /\ sent[k].appState.viewBackgroundColor = "#000000"
    /\ sessions[last.sid].appState.viewBackgroundColor = "#000000"

\* ---- What init and update messages carry ----

\* C16: every init and update message the server sends names the session it
\* describes in sessionId and carries that session's version at the time of
\* sending.
UpdatesCarryIdAndVersion ==
    \A k \in DOMAIN sent :
       sent[k].type \in {"init", "update"} =>
          /\ sent[k].sessionId \in DOMAIN sessions
          /\ sent[k].version = sessions[sent[k].sessionId].version

\* ---- Results of the command surface ----

ToolOps ==
    {"add_elements", "add_elements_legacy", "add_elements_staged", "update_element",
     "delete_element", "get_scene", "add_template_architecture",
     "create_from_mermaid", "create_diagram"}
\* Results a handler returns with isError and a message.
ErrorResults == {"error", "ElementNotFound", "NoActiveClient"}
\* A handler has returned a result, or is suspended at its await.
Returned == {"ok", "pending", "waiting"} \cup ErrorResults
ElementsOf(store, sid) == IF sid \in DOMAIN store THEN store[sid].elements ELSE <<>>
\* Session sid of the store has an element with this id (tombstoned or not).
HoldsElement(store, sid, id) ==
    \E i \in DOMAIN ElementsOf(store, sid) : ElementsOf(store, sid)[i].id = id

\* C17: every command-surface call returns a result and no exception leaves the
\* handler; a call with an invalid session id, with an element id the session
\* does not hold, or whose wait for a client ran out returns an isError result,
\* and so does create_from_mermaid for a conversion that was rejected or timed
\* out, with a message.
CallsReturnErrors ==
    [][/\ last'.op \in ToolOps =>
             /\ last'.res \in Returned
             /\ ~isValidSessionId(last'.sid) => last'.res \in ErrorResults
             /\ ( /\ last'.op \in {"update_element", "delete_element"}
                  /\ isValidSessionId(last'.sid)
                  /\ ~HoldsElement(sessions, last'.sid, last'.arg) )
                    => last'.res \in ErrorResults
             /\ ( /\ last'.op = "add_elements_staged"
                  /\ staged.active /\ ~staged'.active
                  /\ ~waitForSessionClient(staged.sid) )
                    => last'.res \in ErrorResults
       /\ \A r \in ReqIds :
             (promise'[r].kind = "mermaid" /\ promise'[r].state = "rejected") =>
                 /\ createFromMermaidResult(promise'[r]).isError
                 /\ createFromMermaidResult(promise'[r]).text # ""]_vars

\* A call with an invalid session id has returned an error while one conversion
\* was rejected by the client and another timed out.
CallFailedThreeWays ==
    /\ last.op = "delete_element" /\ last.sid = BadId /\ last.res = "error"
    /\ \E r \in ReqIds : promise[r].state = "rejected" /\ promise[r].why = "timeout"
    /\ \E r \in ReqIds : promise[r].state = "rejected" /\ promise[r].why = "client error"

\* ---- Element ids the session does not hold ----

\* C18: update_element and delete_element called with an element id that is not
\* in the target session return the ElementNotFound error result, leave the
\* session's elements and version as they were and broadcast nothing.
NotFoundChangesNothing ==
    [][( /\ last'.op \in {"update_element", "delete_element"}
         /\ isValidSessionId(last'.sid)
         /\ ~HoldsElement(sessions, last'.sid, last'.arg) ) =>
            /\ last'.res = "ElementNotFound"
            /\ ElementsOf(sessions', last'.sid) = ElementsOf(sessions, last'.sid)
            /\ VersionOf(sessions', last'.sid) = VersionOf(sessions, last'.sid)
            /\ sent' = <<>>]_vars

\* An unknown id was refused for a session that holds other elements and has an
\* open client to which an update could have gone.
UnknownIdRefused ==
    /\ last.op \in {"update_element", "delete_element"}
    /\ last.res = "ElementNotFound"
    /\ last.arg = "zz"
    /\ last.sid \in DOMAIN sessions
    /\ sessions[last.sid].elements # <<>>
    /\ sessions[last.sid].version >= 1
    /\ \E c \in Conns : IsOpen(c) /\ clientSessions[c] = last.sid

\* ---- The tombstone ----

\* C19: a successful delete_element only sets the tombstone on the targeted
\* element: the elements array keeps its length and its ids in their order,
\* every other element is unchanged, and the tombstoned element is no longer
\* among the active elements get_scene counts.
DeleteOnlyTombstones ==
    [][(last'.op = "delete_element" /\ last'.res = "ok") =>
          LET old == sessions[last'.sid].elements
              new == sessions'[last'.sid].elements
              hits == {k \in DOMAIN old : old[k].id = last'.arg}
              i == CHOOSE k \in hits : \A h \in hits : k <= h
          IN /\ hits # {}
             /\ Len(new) = Len(old)
             /\ \A k \in DOMAIN old : new[k].id = old[k].id
             /\ \A k \in DOMAIN old \ {i} : new[k] = old[k]
             /\ new[i] = [old[i] EXCEPT !.isDeleted = TRUE]
             /\ Len(activeElements(sessions'[last'.sid])) =
                   Len(activeElements(sessions[last'.sid]))
                     - (IF old[i].isDeleted THEN 0 ELSE 1)
             /\ \A k \in DOMAIN activeElements(sessions'[last'.sid]) :
                   activeElements(sessions'[last'.sid])[k] # new[i]]_vars

\* An element was tombstoned in a session that holds another, active element.
TombstonedAmongOthers ==
    /\ last.op = "delete_element" /\ last.res = "ok"
    /\ Len(sessions[last.sid].elements) >= 2
    /\ Len(activeElements(sessions[last.sid])) >= 1
    /\ Len(activeElements(sessions[last.sid])) < Len(sessions[last.sid].elements)

\* ---- get_scene ----

\* C20 as stated: get_scene, for a known or an unknown session id, leaves the
\* Session Store unchanged and sends no message.
GetSceneReadOnly ==
    [][last'.op = "get_scene" => (sessions' = sessions /\ sent' = <<>>)]_vars

\* C20: get_scene sends no message and changes no stored session (elements,
\* appState, version, lastUpdated); for a valid id the store does not hold, it
\* adds the empty session of that id at version 0, and nothing else.
GetSceneReadsOrCreates ==
    [][(last'.op = "get_scene" /\ last'.res = "ok") =>
          /\ sent' = <<>>
          /\ \A id \in DOMAIN sessions :
                id \in DOMAIN sessions' /\ sessions'[id] = sessions[id]
          /\ DOMAIN sessions' = DOMAIN sessions \cup {last'.sid}
          /\ last'.sid \notin DOMAIN sessions =>
                /\ sessions'[last'.sid].id = last'.sid
                /\ sessions'[last'.sid].elements = <<>>
                /\ sessions'[last'.sid].appState = createDefaultAppState
                /\ sessions'[last'.sid].version = 0
                /\ sessions'[last'.sid].lastUpdated = clock]_vars

\* get_scene has read a session that was stored earlier and holds elements,
\* after the default session came into the store by being read.
SceneReadAfterImplicitCreate ==
    /\ last.op = "get_scene" /\ last.res = "ok" /\ last.sid = "s1"
    /\ sessions["s1"].elements # <<>>
    /\ sessions["s1"].lastUpdated < clock
    /\ DEFAULT_SESSION_ID \in DOMAIN sessions
    /\ sessions[DEFAULT_SESSION_ID].version = 0

\* ---- create_diagram ----

\* C21: create_diagram with a given background color, followed by get_scene,
\* reports exactly that background color and zero active elements.
CreateThenGetScene ==
    [][( /\ last.op = "create_diagram" /\ last.res = "ok" /\ last.arg # ""
         /\ last'.op = "get_scene" /\ last'.res = "ok" ) =>
            /\ last'.arg = last.arg
            /\ last'.ref = 0]_vars

\* C22: clearing a diagram (create_diagram, which takes no session id) wipes the
\* element array of the session the tools work on and increases its version,
\* while the session keeps its id and its connections stay bound to it.
ClearWipesAndBumps ==
    [][( /\ last'.op = "create_diagram" /\ last'.res = "ok"
         /\ DEFAULT_SESSION_ID \in DOMAIN sessions ) =>
            /\ DEFAULT_SESSION_ID \in DOMAIN sessions'
            /\ sessions'[DEFAULT_SESSION_ID].elements = <<>>
            /\ sessions'[DEFAULT_SESSION_ID].version > sessions[DEFAULT_SESSION_ID].version
            /\ UNCHANGED <<clientSessions, sessionClients>>]_vars

\* ---- Points of linear elements ----

\* C23: every arrow, line or freedraw element stored in a session has at least
\* two points, whatever points the input supplied.
StoredLinearHaveTwoPoints ==
    \A id \in DOMAIN sessions :
       \A i \in DOMAIN sessions[id].elements :
          sessions[id].elements[i].type \in LINEAR_ELEMENT_TYPES =>
              sessions[id].elements[i].points >= 2

\* ---- The client's merge of skeleton batches ----

SceneIds(scene) == {scene[i].id : i \in DOMAIN scene}
DistinctIds(scene) == Cardinality(SceneIds(scene)) = Len(scene)

NoClientNoStaging ==
    [][( /\ staged.active /\ ~staged'.active
         /\ ~waitForSessionClient(staged.sid) ) =>
            /\ last'.op = "add_elements_staged"
            /\ last'.res = "NoActiveClient"
            /\ ElementsOf(sessions', staged.sid) = ElementsOf(sessions, staged.sid)
            /\ VersionOf(sessions', staged.sid) = VersionOf(sessions, staged.sid)
            /\ sent' = <<>>]_vars

\* The call gave up on a session that holds elements.
GaveUpWithoutClient ==
    /\ last.op = "add_elements_staged" /\ last.res = "NoActiveClient"
    /\ last.sid \in DOMAIN sessions
    /\ sessions[last.sid].elements # <<>>
    /\ ~staged.active

\* ---- Elements as add_elements builds them ----

AddOps == {"add_elements", "add_elements_staged"}
BoundTo(out, c, textId) ==
    \E k \in DOMAIN out :
       /\ out[k].id = c
       /\ \E b \in DOMAIN out[k].boundElements :
             out[k].boundElements[b] = [type |-> "text", id |-> textId]

\* C26: for every text element of an add_elements batch whose containerId is
\* the id of another element of the batch, that container's boundElements holds
\* {type: 'text', id: the text's id} in what the call stores.
ContainerBindsText ==
    calc.op \in AddOps =>
       \A i \in DOMAIN calc.input :
          ( /\ calc.input[i].type = "text"
            /\ \E j \in DOMAIN calc.input \ {i} :
                  calc.input[j].id = calc.input[i].containerId )
            => BoundTo(calc.output, calc.input[i].containerId, calc.input[i].id)

\* C27: without explicit width and height a non-text shape is stored 100 by
\* 100, and a text of length n at font size f is stored n*f*0.6+10 wide and
\* f*1.25 high (sizes in hundredths).
DefaultSizes ==
    calc.op \in AddOps =>
       \A i \in DOMAIN calc.input :
          LET inp == calc.input[i]
              out == calc.output[i]
              f == IF inp.fontSize # 0 THEN inp.fontSize ELSE 20
          IN (inp.width = 0 /\ inp.height = 0) =>
                IF inp.type # "text"
                THEN out.width = Hundredths(100) /\ out.height = Hundredths(100)
                ELSE /\ out.width = inp.text * f * 60 + Hundredths(10)
                     /\ out.height = f * 125

\* ---- Text updates on shapes ----

\* C28: update_element on an element that is no text element, with updates that
\* carry a text (any string), writes no raw text field: the text is in
\* label.text, the fields of the stored label are kept unless the updates'
\* label overrides them, and textAlign and verticalAlign default to center and
\* middle.
TextGoesToLabel ==
    calc.op = "update_element" =>
       LET element == calc.input[1]
           updates == calc.input[2]
           out == calc.output
       IN (element.type # "text" /\ updates.text # Absent) =>
             /\ out.text = element.text
             /\ out.label.text = updates.text
             /\ \A f \in LabelFields \ {"text"} :
                   out.label[f] =
                      IF HasLabel(updates) /\ updates.label[f] # Absent
                      THEN updates.label[f]
                      ELSE IF element.label[f] # Absent THEN element.label[f]
                      ELSE IF f = "textAlign" THEN "center"
                      ELSE IF f = "verticalAlign" THEN "middle"
                      ELSE Absent

\* ---- The two connection maps ----

\* C29: in every reachable state the connection sets and the
\* connection-to-session map agree: a connection is in the set of a session
\* exactly when the map binds it to that session, it is in at most one set, no
\* empty set is kept, and a closed connection is in neither map.
MapsAgree ==
    /\ \A s \in DOMAIN sessionClients :
          /\ sessionClients[s] # {}
          /\ \A c \in sessionClients[s] : clientSessions[c] = s
    /\ \A c \in Conns :
          /\ clientSessions[c] # NoSid =>
                /\ clientSessions[c] \in DOMAIN sessionClients
                /\ c \in sessionClients[clientSessions[c]]
          /\ Cardinality({s \in DOMAIN sessionClients : c \in sessionClients[s]}) <= 1
          /\ wsState[c] = "none" =>
                /\ clientSessions[c] = NoSid
                /\ \A s \in DOMAIN sessionClients : c \notin sessionClients[s]

\* ---- The bound of the skeleton-batch list ----

\* C30: after enqueueSkeletonBatch or markSkeletonBatchSynced has returned, the
\* skeleton-batch list of a session holds at most
\* max(MAX_PENDING_SKELETON_BATCHES, u) entries, u being the number of its
\* unsynced batches.
BatchListBounded ==
    \A sid \in DOMAIN pendingSkeletonBatches :
       LET batches == pendingSkeletonBatches[sid]
           u == Len(SelectSynced(batches, FALSE))
       IN Len(batches) <= IF u > MAX_PENDING_SKELETON_BATCHES
                          THEN u ELSE MAX_PENDING_SKELETON_BATCHES

\* ---- What pruning removes ----
\* The batches of list s that are (not) synced, and the ids of a list.
BatchIdsOf(s) == {s[i].batchId : i \in 1 .. Len(s)}
\* The batches a step took out of the list of sid, and whether the step
\* acknowledged batch b.
RemovedFrom(sid) ==
    {b \in Range(BatchesOf(pendingSkeletonBatches, sid)) :
        b.batchId \notin BatchIdsOf(BatchesOf(pendingSkeletonBatches', sid))}
AckedNow(b) ==
    last'.op \in {"ready", "elements_converted"} /\ last'.res = "ok" /\ last'.ref = b

\* C31: pruning never removes an unsynced batch, and the synced batches it
\* removes are the oldest: every synced batch that is retained was created
\* (batch ids are issued in order of creation) after every batch removed in the
\* same step.
PruningDropsOldestSynced ==
    [][\A sid \in DOMAIN pendingSkeletonBatches :
          \A r \in RemovedFrom(sid) :
             /\ r.synced \/ AckedNow(r.batchId)
             /\ \A k \in Range(BatchesOf(pendingSkeletonBatches', sid)) :
                   k.synced => k.batchId > r.batchId]_vars

\* The part of it that is about unsynced batches alone.
PruningKeepsUnsynced ==
    [][\A sid \in DOMAIN pendingSkeletonBatches :
          \A r \in RemovedFrom(sid) : r.synced \/ AckedNow(r.batchId)]_vars

\* ---- Synced batches ----
\* Batch b is in a list and unsynced there.
UnsyncedSomewhere(psb, b) ==
    \E sid \in DOMAIN psb : b \in UnsyncedIds(psb, sid)
\* Batch b is in the list of sid and synced there.
SyncedIn(psb, sid, b) ==
    \E i \in DOMAIN BatchesOf(psb, sid) :
       BatchesOf(psb, sid)[i].batchId = b /\ BatchesOf(psb, sid)[i].synced

\* C32: an accepted elements_converted with a batch's id, or a ready with it as
\* lastAckedBatchId, from a connection bound to the batch's session makes the
\* batch synced; a batch that is synced, the step that made it so included, is
\* not sent to any connection, and it is never unsynced again.
SyncedIsFinal ==
    [][/\ \A b \in BatchIds :
             (/\ AckedNow(b)
              /\ b \in BatchIdsOf(BatchesOf(pendingSkeletonBatches, last'.sid)))
             => ~UnsyncedSomewhere(pendingSkeletonBatches', b)
       /\ \A b \in BatchIds :
             (b < nextBatch /\ ~UnsyncedSomewhere(pendingSkeletonBatches', b))
             => \A k \in DOMAIN sent' :
                   ~(sent'[k].type = "add_elements" /\ sent'[k].ref = b)
       /\ \A b \in BatchIds :
             (b < nextBatch /\ ~UnsyncedSomewhere(pendingSkeletonBatches, b))
             => ~UnsyncedSomewhere(pendingSkeletonBatches', b)]_vars

\* A ready without acknowledgement in a session that holds a synced batch, to
\* which another batch was sent again.
ReplayedBesideSynced ==
    /\ last.op = "ready" /\ last.ref = NoRef
    /\ \E b \in BatchIds : SyncedIn(pendingSkeletonBatches, last.sid, b)
    /\ \E k \in DOMAIN sent : sent[k].type = "add_elements"

\* ---- Mutations in one step ----
\* Message m carries a state of a session (init and the clients' update).
CarriesState(m) == m.version # NoVersion

\* C33: the steps of a mutation (change, version increment, update, broadcast)
\* are one step: every state a step sends is the state the store holds after
\* the step, every step that changes a session's version has it persisted with
\* the clock of that step, and a call that is suspended, or gives up, has
\* changed no session that existed.
MutationsAreWhole ==
    [][/\ \A k \in DOMAIN sent' :
             CarriesState(sent'[k]) =>
                /\ sent'[k].sessionId \in DOMAIN sessions'
                /\ sent'[k].version = sessions'[sent'[k].sessionId].version
                /\ sent'[k].elements = sessions'[sent'[k].sessionId].elements
                /\ sent'[k].appState = sessions'[sent'[k].sessionId].appState
       /\ \A sid \in DOMAIN sessions' :
             (sid \in DOMAIN sessions /\ sessions'[sid].version # sessions[sid].version)
             => sessions'[sid].lastUpdated = clock'
       /\ last'.res \in {"waiting", "NoActiveClient"} =>
             \A sid \in DOMAIN sessions : sessions'[sid] = sessions[sid]]_vars

\* A conversion was committed and sent on to a peer while an add_elements call
\* was suspended.
CommittedWhileSuspended ==
    /\ last.op = "mermaid_converted" /\ last.res = "ok"
    /\ staged.active
    /\ \E k \in DOMAIN sent : CarriesState(sent[k])

\* ---- Timers and ledgers ----
Timeouts == {"export_timeout", "mermaid_timeout"}

\* C34: a timer is armed for exactly the requests that are in the export or the
\* conversion ledger; an answer of a client that settles a request, with
\* success or with an error, clears its timer in the same step; and a timeout
\* fires only for a request that is still pending, so that no request settled
\* by an answer is rejected by its timeout afterwards.
TimersFollowLedgers ==
    /\ [](timers = (DOMAIN pendingExports) \cup (DOMAIN pendingMermaidConversions))
    /\ [][\A r \in ReqIds :
             /\ (last'.op \in Answers /\ last'.res = "ok" /\ last'.ref = r)
                => r \notin timers' /\ promise'[r].state \in {"resolved", "rejected"}
             /\ (last'.op \in Timeouts /\ last'.ref = r)
                => promise[r].state = "pending"
             /\ promise[r].state \in {"resolved", "rejected"}
                => promise'[r] = promise[r]]_vars

\* A client's answer settled one request while the timer of another was armed.
SettledBesideArmedTimer ==
    /\ last.op \in Answers /\ last.res = "ok"
    /\ last.ref \notin timers
    /\ timers # {}

\* ---- Answers from another session ----

\* C35: an export_result, mermaid_converted or mermaid_convert_error that names
\* a pending request and comes from a connection bound to another session than
\* the one the request was issued for leaves the request pending, in its ledger
\* and with its timer, and changes no session.
ForeignAnswersIgnored ==
    [][\A r \in ReqIds :
          (/\ last'.op \in Answers /\ last'.ref = r
           /\ promise[r].state = "pending"
           /\ last'.conn \in Conns
           /\ CurrentSessionId(last'.conn) # promise[r].sid)
          => /\ promise'[r] = promise[r]
             /\ pendingExports' = pendingExports
             /\ pendingMermaidConversions' = pendingMermaidConversions
             /\ timers' = timers
             /\ sessions' = sessions]_vars

\* The part of it that is about mermaid_converted.
ForeignConversionIgnored ==
    [][\A r \in ReqIds :
          (/\ last'.op = "mermaid_converted" /\ last'.ref = r
           /\ promise[r].state = "pending"
           /\ last'.conn \in Conns
           /\ CurrentSessionId(last'.conn) # promise[r].sid)
          => /\ promise'[r] = promise[r]
             /\ pendingMermaidConversions' = pendingMermaidConversions
             /\ timers' = timers
             /\ sessions' = sessions]_vars

\* ---- Who holds a dispatched request ----

\* C36: in every reachable state a pending conversion request that is marked
\* dispatched has been sent to at least one connection that is still bound to
\* the session of the request.
DispatchedHasLiveRecipient ==
    \A r \in DOMAIN pendingMermaidConversions :
       pendingMermaidConversions[r].dispatched =>
          \E c \in recipients[r] :
             clientSessions[c] = pendingMermaidConversions[r].sessionId

\* What holds of it: a dispatched request was sent to some connection.
DispatchedWasSent ==
    \A r \in DOMAIN pendingMermaidConversions :
       pendingMermaidConversions[r].dispatched => recipients[r] # {}

\* ---- Bound connections and the store ----

\* C37: in every reachable state every session id to which a connection is
\* bound has a session in the Session Store.
BoundSessionsExist ==
    \A c \in Conns :
       clientSessions[c] # NoSid => clientSessions[c] \in DOMAIN sessions

\* ---- Joining an existing session ----

\* C38: a connection that opens on, or a join_session for, a session that
\* exists only reads it: its elements, appState, version and lastUpdated are
\* after the handler what they were before.
JoinOnlyReads ==
    [][(last'.op \in Joins /\ last'.res = "ok" /\ last'.sid \in DOMAIN sessions)
       => sessions'[last'.sid] = sessions[last'.sid]]_vars

\* The part of it that holds: version, appState and lastUpdated are kept.
JoinKeepsVersion ==
    [][(last'.op \in Joins /\ last'.res = "ok" /\ last'.sid \in DOMAIN sessions)
       => /\ sessions'[last'.sid].version = sessions[last'.sid].version
          /\ sessions'[last'.sid].appState = sessions[last'.sid].appState
          /\ sessions'[last'.sid].lastUpdated = sessions[last'.sid].lastUpdated]_vars

\* ---- join_session with an invalid id ----

\* C39: a join_session whose sessionId fails the validation of session ids is
\* dropped without effect: the connection stays bound as it was, both
\* connection maps are unchanged and no session is created.
InvalidJoinDropped ==
    [][(last'.op = "join_session" /\ last'.sid # NoSid /\ ~isValidSessionId(last'.sid))
       => /\ clientSessions' = clientSessions
          /\ sessionClients' = sessionClients
          /\ sessions' = sessions]_vars

\* The part of it that holds: no session is created and nothing is sent.
InvalidJoinCreatesNothing ==
    [][(last'.op = "join_session" /\ last'.sid # NoSid /\ ~isValidSessionId(last'.sid))
       => sessions' = sessions /\ sent' = <<>>]_vars

\* ---- Batches of a session that is gone ----

\* C40: a session created under an id that was deleted or evicted before starts
\* with no pending skeleton batch: the step that creates a session leaves no
\* batch in the list of its id that was enqueued before that step, so that no
\* ready in the new session is sent a batch of the old one.
NewSessionHasNoOldBatches ==
    [][\A sid \in SessionIds :
          (sid \notin DOMAIN sessions /\ sid \in DOMAIN sessions')
          => \A b \in BatchIdsOf(BatchesOf(pendingSkeletonBatches', sid)) :
                b >= nextBatch]_vars

====
